---- MODULE Spec2Model ----
(***************************************************************************)
(* ORST dictionary scraper: the resumable crawl orchestrator               *)
(* (scripts/orst_scraper.py), its checkpoint store                         *)
(* (scripts/progress_tracker.py) and the two page fetchers                 *)
(* (scripts/api_client.py, scripts/async_api_client.py).                   *)
(*                                                                         *)
(* Words are sequences of Unicode code points.  Indices into the alphabet  *)
(* are 0-based as in the Python code; TLA+ sequences are 1-based, so the   *)
(* symbol at index i is Alphabet[i + 1].                                   *)
(***************************************************************************)
EXTENDS Integers, Sequences, FiniteSets, TLC

VARIABLES
    \* ---- orchestrator (ORSTScraper) and checkpoint store (ProgressTracker)
    pc,             \* position of the running ORSTScraper.run, or how it ended
    config,         \* the ScraperConfig of the current process
    state,          \* ProgressTracker.state (the in-memory ProgressState)
    disk,           \* the checkpoint file PROGRESS_FILE
    all_words,      \* ORSTScraper.all_words
    index,          \* loop variable of scrape_all
    page,           \* next page fetch_all_pages will request
    first_total,    \* first_page.total_pages inside fetch_all_pages
    words,          \* the word list fetch_all_pages is accumulating
    result,         \* the value run() returned
    cache,          \* the on-disk page cache of the sequential client
    last_request_time, \* ORSTAPIClient.last_request_time
    client_closed,  \* whether ORSTAPIClient.close() was called on this client
    now,            \* wall clock
    runs,           \* number of processes started so far
    \* ---- history of the current run (not program state)
    loaded,         \* the checkpoint __init__ loaded, if it loaded one, and its resume argument
    fetched,        \* domains fetch_all_pages was called for in this run
    saved_chars,    \* domains during whose processing save() wrote the file
    full_fetch,     \* domains whose fetch_all_pages returned a list, in any run
    requested,      \* the pages the current fetch_all_pages asked fetch_page for, in order
    unlinked,       \* whether clear() deleted the checkpoint file in this run
    \* ---- history of the calls of one ORSTAPIClient (not program state)
    s_call,         \* the last fetch_page call and what it did
    s_prev,         \* the fetch_page call before it
    last_sent,      \* time the last network request was sent, -1 if none
    prev_sent,      \* time the network request before it was sent, -1 if none
    \* ---- one AsyncORSTAPIClient and the fetch_page coroutines running on it
    tasks,          \* per coroutine: where it is and what it has done
    permits,        \* the value of self.semaphore
    max_concurrent, \* self.max_concurrent
    payload_format, \* what the service puts in the list of its responses
    since_sent,     \* time since the last network request was sent, counted up to
                    \* delay_ms; -1 if none was sent
    last_gap,       \* time between the last two network requests, counted up to
                    \* delay_ms; -1 if fewer than two were sent
    \* ---- one fetch_all_domains_concurrent call on an AsyncORSTAPIClient
    fetches,        \* per (domain, page): the fetch_page coroutine for it
    domains,        \* per domain: the fetch_domain coroutine for it
    domain_words,   \* what fetch_all_domains_concurrent returned
    completed       \* history: the pages whose fetch_page finished, in the order they finished

seq_vars == <<s_call, s_prev, last_sent, prev_sent>>

async_vars == <<tasks, permits, max_concurrent, payload_format, since_sent, last_gap>>

log_vars == <<requested, unlinked>>

crawl_vars == <<fetches, domains, domain_words, completed>>

orch_vars == <<pc, config, state, disk, all_words, index, page, first_total,
               words, result, cache, last_request_time, client_closed, now,
               runs, loaded, fetched, saved_chars, full_fetch>>

vars == <<orch_vars, log_vars, seq_vars, async_vars, crawl_vars>>

-----------------------------------------------------------------------------
(* Bounds of the model *)

NumDomains == 3       \* the crawl walks the first NumDomains alphabet symbols
MaxRuns == 2          \* processes started one after another on the same files
MaxTotalWords == 3    \* cap on total_words_scraped in the tracker's specification
MaxRetries == 1       \* largest config.max_retries of the fetchers' specifications
MaxTime == 1600       \* the clock (milliseconds) stops here in the sequential fetcher's specification
NumTasks == 2         \* fetch_page coroutines running at once on one async client
MaxWordLen == 2        \* longest word of the word pairs in thai_utils' specification
MaxListLen == 3        \* longest word list in thai_utils' specification
MaxTotalCount == 31   \* largest total_count of a response in the response properties' specification
MaxPageNumber == 4    \* largest page number of a response in the response properties' specification
GatherPages == 3      \* pages of the domain in the specification of one fetch_all_pages

-----------------------------------------------------------------------------
(* Program constants *)

RESULTS_PER_PAGE == 10
DEFAULT_DELAY_MS == 200
MAX_RETRIES == 3
RETRY_BACKOFF_BASE == 2

\* config.THAI_ALPHABET: the 46 consonants, which are the code points
\* U+0E01 .. U+0E2E in increasing order
THAI_ALPHABET == [i \in 1..46 |-> 3584 + i]

Alphabet == SubSeq(THAI_ALPHABET, 1, NumDomains)

AlphabetSet == {Alphabet[i] : i \in 1..Len(Alphabet)}

-----------------------------------------------------------------------------
(* Sequence helpers *)

Range(s) == {s[i] : i \in 1..Len(s)}

RECURSIVE Flatten(_)
Flatten(ss) == IF ss = <<>> THEN <<>> ELSE Head(ss) \o Flatten(Tail(ss))

RECURSIVE SumLen(_)
SumLen(ss) == IF ss = <<>> THEN 0 ELSE Len(Head(ss)) + SumLen(Tail(ss))

\* all orderings of a finite set as sequences without repetition
Orderings(S) ==
    {s \in [1..Cardinality(S) -> S] : \A i, j \in 1..Cardinality(S) : i # j => s[i] # s[j]}

-----------------------------------------------------------------------------
(* The remote dictionary: what the API answers for (domain, page).         *)
(* It is the same in every run.  The symbol at position 1, 4, 7, ... has   *)
(* 12 words (two pages), at position 2, 5, ... none, at 3, 6, ... seven    *)
(* (one page).                                                             *)

PosOf(c) == CHOOSE i \in 1..Len(THAI_ALPHABET) : THAI_ALPHABET[i] = c

RemoteTotalCount(c) ==
    CASE PosOf(c) % 3 = 1 -> 12
      [] PosOf(c) % 3 = 2 -> 0
      [] OTHER -> 7

\* 3657 = MAI THO, 3640 = SARA U (not in NFC order), 3634 = SARA AA,
\* 97 = 'a', 32 = space
RemoteWords(c, p) ==
    CASE RemoteTotalCount(c) = 0 -> <<>>
      [] RemoteTotalCount(c) # 0 /\ p = 1 -> << <<c, 3657, 3640>>, <<c>> >>
      [] OTHER -> << <<c, 3634>>, <<c>>, <<97>>, <<c, 32, c>> >>

\* a page count that rounds down
total_pages_Floor(total_count) == total_count \div RESULTS_PER_PAGE

total_pages(total_count) == (total_count + RESULTS_PER_PAGE - 1) \div RESULTS_PER_PAGE

\* the largest page number the remote has
MaxPage == total_pages(RemoteTotalCount(THAI_ALPHABET[1]))

-----------------------------------------------------------------------------
(* normalize_thai_unicode: NFC.  No character of the model's universe has  *)
(* a canonical decomposition, so NFC is the canonical reordering of        *)
(* adjacent combining marks by combining class.                            *)

CombiningClass(c) ==
    CASE c \in {3640, 3641} -> 103
      [] c = 3642 -> 9
      [] c \in 3656..3659 -> 107
      [] OTHER -> 0

RECURSIVE normalize_thai_unicode(_)
normalize_thai_unicode(w) ==
    LET bad == {i \in 1..(Len(w) - 1) :
                  /\ CombiningClass(w[i + 1]) > 0
                  /\ CombiningClass(w[i]) > CombiningClass(w[i + 1])}
    IN IF bad = {} THEN w
       ELSE LET i == CHOOSE k \in bad : \A j \in bad : k <= j
            IN normalize_thai_unicode(
                 [w EXCEPT ![i] = w[i + 1], ![i + 1] = w[i]])

-----------------------------------------------------------------------------
(* thai_utils: validation, filtering, deduplication, collation             *)

THAI_CONSONANTS_RANGE == <<3585, 3630>>
THAI_VOWELS_RANGE == <<3632, 3642>>
THAI_TONE_MARKS_RANGE == <<3656, 3659>>
THAI_SPECIAL_CHARS_RANGE == <<3660, 3663>>

is_thai_character(c) ==
    \/ THAI_CONSONANTS_RANGE[1] <= c /\ c <= THAI_CONSONANTS_RANGE[2]
    \/ THAI_VOWELS_RANGE[1] <= c /\ c <= THAI_VOWELS_RANGE[2]
    \/ THAI_TONE_MARKS_RANGE[1] <= c /\ c <= THAI_TONE_MARKS_RANGE[2]
    \/ THAI_SPECIAL_CHARS_RANGE[1] <= c /\ c <= THAI_SPECIAL_CHARS_RANGE[2]

\* str.isspace() on one character
IsSpace(c) ==
    c \in (9..13) \cup (28..32) \cup {133, 160, 5760} \cup (8192..8202)
          \cup {8232, 8233, 8239, 8287, 12288}

is_valid_thai_word(word, allow_spaces) ==
    /\ word # <<>>
    /\ \A i \in 1..Len(word) :
          IF IsSpace(word[i]) THEN allow_spaces ELSE is_thai_character(word[i])

\* " " in word or "-" in word or EN DASH in word
is_compound_word(word) == \E i \in 1..Len(word) : word[i] \in {32, 45, 8211}

\* not word or not word.strip()
IsBlank(word) == \A i \in 1..Len(word) : IsSpace(word[i])

KeepWord(word, allow_compounds, strict_thai_only) ==
    /\ ~IsBlank(word)
    /\ ~(~allow_compounds /\ is_compound_word(word))
    /\ ~(strict_thai_only /\ ~is_valid_thai_word(word, allow_compounds))

RECURSIVE filter_invalid_words(_, _, _)
filter_invalid_words(ws, allow_compounds, strict_thai_only) ==
    IF ws = <<>> THEN <<>>
    ELSE (IF KeepWord(Head(ws), allow_compounds, strict_thai_only)
          THEN <<Head(ws)>> ELSE <<>>)
         \o filter_invalid_words(Tail(ws), allow_compounds, strict_thai_only)

RECURSIVE DedupFrom(_, _)
DedupFrom(ws, seen) ==
    IF ws = <<>> THEN <<>>
    ELSE IF Head(ws) \in seen THEN DedupFrom(Tail(ws), seen)
    ELSE <<Head(ws)>> \o DedupFrom(Tail(ws), seen \cup {Head(ws)})

\* a deduplication that keeps the last occurrence of a word
RECURSIVE DedupFrom_KeepLast(_, _)
DedupFrom_KeepLast(ws, seen) ==
    IF ws = <<>> THEN <<>>
    ELSE IF Head(ws) \in Range(Tail(ws)) THEN DedupFrom_KeepLast(Tail(ws), seen)
    ELSE <<Head(ws)>> \o DedupFrom_KeepLast(Tail(ws), seen)

deduplicate_KeepLast(ws) == DedupFrom_KeepLast(ws, {})

deduplicate_preserving_order(ws) == DedupFrom(ws, {})

\* thai_order = {char: idx for idx, char in enumerate(THAI_ALPHABET)}
thai_order(c) == PosOf(c) - 1

InThaiOrder(c) == \E i \in 1..Len(THAI_ALPHABET) : THAI_ALPHABET[i] = c

\* a key that leaves the code point out of the second and third tier
CharKey_NoCodePoint(c) ==
    IF InThaiOrder(c) THEN <<thai_order(c), 0>>
    ELSE IF is_thai_character(c) THEN <<1000, 0>>
    ELSE <<2000, 0>>

CharKey(c) ==
    IF InThaiOrder(c) THEN <<thai_order(c), 0>>
    ELSE IF is_thai_character(c) THEN <<1000, c>>
    ELSE <<2000, c>>

sort_key(word) == [i \in 1..Len(word) |-> CharKey(word[i])]

\* Python's order on tuples of (int, int) pairs
PairLess(a, b) == a[1] < b[1] \/ (a[1] = b[1] /\ a[2] < b[2])

\* a tuple order in which a tuple and its proper prefix compare equal
RECURSIVE KeyLess_PrefixEqual(_, _)
KeyLess_PrefixEqual(k1, k2) ==
    IF k1 = <<>> \/ k2 = <<>> THEN FALSE
    ELSE IF Head(k1) = Head(k2) THEN KeyLess_PrefixEqual(Tail(k1), Tail(k2))
    ELSE PairLess(Head(k1), Head(k2))

RECURSIVE KeyLess(_, _)
KeyLess(k1, k2) ==
    IF k2 = <<>> THEN FALSE
    ELSE IF k1 = <<>> THEN TRUE
    ELSE IF Head(k1) = Head(k2) THEN KeyLess(Tail(k1), Tail(k2))
    ELSE PairLess(Head(k1), Head(k2))

\* sorted() is stable: an element goes behind every element whose key is
\* not greater than its own
RECURSIVE InsertByKey(_, _)
InsertByKey(sorted, w) ==
    IF sorted = <<>> THEN <<w>>
    ELSE IF KeyLess(sort_key(w), sort_key(Head(sorted)))
         THEN <<w>> \o sorted
         ELSE <<Head(sorted)>> \o InsertByKey(Tail(sorted), w)

RECURSIVE SortedFrom(_, _)
SortedFrom(acc, ws) ==
    IF ws = <<>> THEN acc ELSE SortedFrom(InsertByKey(acc, Head(ws)), Tail(ws))

\* a sort that keeps each word once
sort_thai_words_Unique(ws) == SortedFrom(<<>>, deduplicate_preserving_order(ws))

sort_thai_words(ws) == SortedFrom(<<>>, ws)

\* process_words without its deduplication step
process_words_NoDedup(ws, cfg) ==
    sort_thai_words(
        filter_invalid_words(ws, cfg.include_compound_words, cfg.validate_thai_only))

process_words(ws, cfg) ==
    sort_thai_words(
        deduplicate_preserving_order(
            filter_invalid_words(ws, cfg.include_compound_words, cfg.validate_thai_only)))

-----------------------------------------------------------------------------
(* ProgressState / ProgressTracker (scripts/progress_tracker.py)           *)
(* partial_results is a Python dict: a sequence of <<key, value>> pairs in *)
(* insertion order, each key once.                                         *)

DictKeys(d) == {d[i][1] : i \in 1..Len(d)}

DictGet(d, k) == d[CHOOSE i \in 1..Len(d) : d[i][1] = k][2]

DictSet(d, k, v) ==
    IF k \in DictKeys(d)
    THEN [i \in 1..Len(d) |-> IF d[i][1] = k THEN <<k, v>> ELSE d[i]]
    ELSE Append(d, <<k, v>>)

DictValues(d) == [i \in 1..Len(d) |-> d[i][2]]

\* ProgressState(): last_update_time "" is written 0
FreshState ==
    [current_char_index |-> 0, completed_chars |-> {}, total_words_scraped |-> 0,
     last_update_time |-> 0, partial_results |-> <<>>]

\* mutant: the word list is stored only when it is not empty
mark_completed_SkipEmpty(st, char, ws, t) ==
    [st EXCEPT !.completed_chars = @ \cup {char},
               !.partial_results = IF ws = <<>> THEN @ ELSE DictSet(@, char, ws),
               !.total_words_scraped = @ + Len(ws),
               !.last_update_time = t]

mark_completed(st, char, ws, t) ==
    [st EXCEPT !.completed_chars = @ \cup {char},
               !.partial_results = DictSet(@, char, ws),
               !.total_words_scraped = @ + Len(ws),
               !.last_update_time = t]

\* a check that finds no domain completed
is_completed_Never(st, char) == FALSE

is_completed(st, char) == char \in st.completed_chars

\* mutant: the loaded words are not taken over
get_all_words_Empty(st) == <<>>

get_all_words(st) == Flatten(DictValues(st.partial_results))

\* the JSON document save() dumps: completed_chars becomes a list, in the
\* iteration order `order` of the set
ToJson(st, order) ==
    [current_char_index |-> st.current_char_index,
     completed_chars |-> order,
     total_words_scraped |-> st.total_words_scraped,
     last_update_time |-> st.last_update_time,
     partial_results |-> st.partial_results]

\* mutant: load() does not take over last_update_time
FromJson_NoTime(data) ==
    [current_char_index |-> data.current_char_index,
     completed_chars |-> Range(data.completed_chars),
     total_words_scraped |-> data.total_words_scraped,
     last_update_time |-> 0,
     partial_results |-> data.partial_results]

\* the ProgressState load() builds from a parsed document
FromJson(data) ==
    [current_char_index |-> data.current_char_index,
     completed_chars |-> Range(data.completed_chars),
     total_words_scraped |-> data.total_words_scraped,
     last_update_time |-> data.last_update_time,
     partial_results |-> data.partial_results]

\* list(self.state.completed_chars): the iteration order of a Python set is
\* not specified; the model draws it from these two orders
Ascending(S) == CHOOSE o \in Orderings(S) : \A i, j \in 1..Len(o) : i < j => o[i] < o[j]
Descending(S) == CHOOSE o \in Orderings(S) : \A i, j \in 1..Len(o) : i < j => o[i] > o[j]
SaveOrders(S) == {Ascending(S), Descending(S)}

\* The checkpoint file: absent, holding a complete document ("ok"), or
\* holding a proper prefix of one ("corrupt": open(.., 'w') truncated it and
\* the dump did not finish), which json.load rejects.
NoData == ToJson(FreshState, <<>>)
FileAbsent == [kind |-> "absent", data |-> NoData]
FileCorrupt == [kind |-> "corrupt", data |-> NoData]
FileOk(data) == [kind |-> "ok", data |-> data]

\* ProgressTracker.save: the file afterwards.  io is "ok", "open" (open()
\* raised IOError: the file is untouched) or "write" (the dump raised IOError
\* after open() truncated the file); save() swallows the IOError
save(file, st, io, order) ==
    CASE io = "open" -> file
      [] io = "write" -> FileCorrupt
      [] OTHER -> FileOk(ToJson(st, order))

\* ProgressTracker.clear: <<state afterwards, file afterwards>>
clear(file, unlink_ok) ==
    <<FreshState, IF file.kind # "absent" /\ unlink_ok THEN FileAbsent ELSE file>>

\* ProgressTracker.load: <<returned, state afterwards>>
load(file, st, read_ok) ==
    IF file.kind = "ok" /\ read_ok THEN <<TRUE, FromJson(file.data)>> ELSE <<FALSE, st>>

-----------------------------------------------------------------------------
(* The page cache of the sequential client: one file per (domain, page)    *)

CacheKeys == AlphabetSet \X (1..MaxPage)

NoEntry == [kind |-> "absent", total_count |-> 0, words |-> <<>>, page |-> 0, domain |-> 0]
BadEntry == [NoEntry EXCEPT !.kind = "corrupt"]
CacheEntry(resp) ==
    [kind |-> "ok", total_count |-> resp.total_count, words |-> resp.words,
     page |-> resp.page, domain |-> resp.domain]

APIResponse(total_count, ws, p, d) ==
    [total_count |-> total_count, words |-> ws, page |-> p, domain |-> d]

\* ORSTAPIClient._load_from_cache: <<hit, response>>
load_from_cache(cfg, c, d, p, read_ok) ==
    IF cfg.cache_enabled /\ c[<<d, p>>].kind = "ok" /\ read_ok
    THEN <<TRUE, APIResponse(c[<<d, p>>].total_count, c[<<d, p>>].words,
                             c[<<d, p>>].page, c[<<d, p>>].domain)>>
    ELSE <<FALSE, APIResponse(0, <<>>, 0, 0)>>

save_to_cache_Discard(cfg, c, resp, io) == c

\* ORSTAPIClient._save_to_cache: the cache afterwards.  io is "ok", "open"
\* (open() raised OSError: the file is untouched) or "write" (the dump raised
\* OSError after open() truncated the file)
save_to_cache(cfg, c, resp, io) ==
    IF ~cfg.cache_enabled \/ io = "open" THEN c
    ELSE IF io = "write" THEN [c EXCEPT ![<<resp.domain, resp.page>>] = BadEntry]
    ELSE [c EXCEPT ![<<resp.domain, resp.page>>] = CacheEntry(resp)]

IoOutcomes == {"ok", "open", "write"}

\* The decoded JSON body of a status-200 response, by what the clients look
\* at: whether it is a list and of what length, the type and value of its
\* first element (count_kind "str" is a string of digits spelling count), and
\* whether its second element is a list, with that list's items
GoodBody(d, p) ==
    [is_list |-> TRUE, len |-> 2, count_kind |-> "int", count |-> RemoteTotalCount(d),
     words_is_list |-> TRUE, words |-> RemoteWords(d, p)]

NoBody ==
    [is_list |-> FALSE, len |-> 0, count_kind |-> "int", count |-> 0,
     words_is_list |-> FALSE, words |-> <<>>]

\* the bodies the service may send for (d, p): the documented one, a body
\* that is not a list, lists of one and of three elements, a negative count,
\* a count sent as a string, and a second element that is not a list
Bodies(d, p) ==
    { GoodBody(d, p),
      [NoBody EXCEPT !.len = 2],
      [GoodBody(d, p) EXCEPT !.len = 1, !.words_is_list = FALSE, !.words = <<>>],
      [GoodBody(d, p) EXCEPT !.len = 3],
      [GoodBody(d, p) EXCEPT !.count = 0 - 1],
      [GoodBody(d, p) EXCEPT !.count_kind = "str"],
      [GoodBody(d, p) EXCEPT !.words_is_list = FALSE, !.words = <<>>] }

\* the body is a list of exactly two elements, a non-negative integer and a list
WellFormed(body) ==
    /\ body.is_list /\ body.len = 2
    /\ body.count_kind = "int" /\ body.count >= 0
    /\ body.words_is_list

\* ORSTAPIClient.fetch_page, the two checks of the body: which one raises
seq_body_error(body) ==
    IF ~body.is_list \/ body.len # 2 THEN "format"
    ELSE IF body.count_kind # "int" \/ ~body.words_is_list THEN "types"
    ELSE "none"

\* AsyncORSTAPIClient.fetch_page, the parsing of the body: it goes through
\* (int() accepts an int and a string of digits)
async_body_ok(body) ==
    /\ body.is_list /\ body.len >= 2 /\ body.words_is_list
    /\ body.count_kind \in {"int", "str"}

\* what is recorded of one fetch_page call
NoCall ==
    [key |-> <<0, 0>>, outcome |-> "none", cache_hit |-> FALSE, gets |-> 0,
     waited |-> 0, resp |-> APIResponse(0, <<>>, 0, 0),
     lrt_changed |-> FALSE, io_failed |-> FALSE, status200 |-> FALSE,
     body |-> NoBody, saved |-> FALSE]

\* the record of a call once a later call has been made
Earlier(call) == [call EXCEPT !.body = NoBody]

\* the cache file of (d, p) exists and reading it raises OSError
ReadFails(cfg, c, d, p, read_ok) ==
    cfg.cache_enabled /\ c[<<d, p>>].kind # "absent" /\ ~read_ok

-----------------------------------------------------------------------------
(* ORSTScraper (scripts/orst_scraper.py)                                   *)

\* The configurations of the model.  The orchestrator runs with delay_ms = 0,
\* as the test fixtures do.  Every process of one behaviour has the same
\* configuration up to resume_enabled, which is the only one of these fields
\* the command line (--no-resume) changes between two runs on the same files
\* besides --no-cache and --no-compounds.
Configs ==
    {cfg \in [cache_enabled : BOOLEAN, resume_enabled : BOOLEAN,
              normalize_unicode : BOOLEAN, include_compound_words : BOOLEAN,
              validate_thai_only : BOOLEAN, delay_ms : {0},
              max_retries : {MAX_RETRIES}] :
        /\ cfg.include_compound_words = cfg.normalize_unicode
        /\ cfg.validate_thai_only = cfg.cache_enabled}

SameInstallation(cfg1, cfg2) == [cfg1 EXCEPT !.resume_enabled = TRUE] = [cfg2 EXCEPT !.resume_enabled = TRUE]

RunningPcs == {"loop", "fetch", "mark", "mark_save", "mark_write", "extend",
               "index_save", "index_write", "process", "clear", "cleared"}
EndedPcs == {"idle", "done", "failed", "save_failed", "interrupted"}

CurChar == Alphabet[index + 1]

Init ==
    /\ pc = "idle"
    /\ config \in Configs
    /\ state = FreshState
    /\ disk = FileAbsent
    /\ all_words = <<>>
    /\ index = 0
    /\ page = 0
    /\ first_total = 0
    /\ words = <<>>
    /\ result = <<>>
    /\ cache = [k \in CacheKeys |-> NoEntry]
    /\ last_request_time = 0
    /\ client_closed = FALSE
    /\ now = 1
    /\ runs = 0
    /\ loaded = [ok |-> FALSE, st |-> FreshState, resume |-> FALSE]
    /\ fetched = {}
    /\ saved_chars = {}
    /\ full_fetch = {}
    /\ requested = <<>>
    /\ unlinked = FALSE
    /\ completed = <<>>
    /\ s_call = NoCall
    /\ s_prev = NoCall
    /\ last_sent = -1
    /\ prev_sent = -1
    /\ tasks = <<>>
    /\ permits = 0
    /\ max_concurrent = 0
    /\ payload_format = "strings"
    /\ since_sent = -1
    /\ last_gap = -1
    /\ fetches = <<>>
    /\ domains = <<>>
    /\ domain_words = <<>>

\* mutant: __init__ loads the checkpoint although the configuration disables resume
Construct_IgnoreConfig(cfg, resume, read_ok) ==
    /\ pc \in EndedPcs
    /\ runs < MaxRuns
    /\ SameInstallation(cfg, config)
    /\ LET ld == IF resume
                 THEN load(disk, FreshState, read_ok)
                 ELSE <<FALSE, FreshState>>
       IN /\ state' = ld[2]
          /\ all_words' = IF ld[1] THEN get_all_words(ld[2]) ELSE <<>>
          /\ loaded' = [ok |-> ld[1], st |-> ld[2], resume |-> resume]
          /\ index' = ld[2].current_char_index
    /\ config' = cfg
    /\ pc' = "loop"
    /\ runs' = runs + 1
    /\ now' = now + 1
    /\ last_request_time' = 0
    /\ client_closed' = FALSE
    /\ fetched' = {}
    /\ saved_chars' = {}
    /\ requested' = <<>>
    /\ unlinked' = FALSE
    /\ page' = 0
    /\ first_total' = 0
    /\ words' = <<>>
    /\ result' = <<>>
    /\ UNCHANGED <<disk, cache, full_fetch>>

\* A new process: ORSTScraper(config, resume) followed by run() up to the
\* head of the loop of scrape_all
Construct(cfg, resume, read_ok) ==
    /\ pc \in EndedPcs
    /\ runs < MaxRuns
    /\ SameInstallation(cfg, config)
    /\ LET ld == IF resume /\ cfg.resume_enabled
                 THEN load(disk, FreshState, read_ok)
                 ELSE <<FALSE, FreshState>>
       IN /\ state' = ld[2]
          /\ all_words' = IF ld[1] THEN get_all_words(ld[2]) ELSE <<>>
          /\ loaded' = [ok |-> ld[1], st |-> ld[2], resume |-> resume]
          /\ index' = ld[2].current_char_index
    /\ config' = cfg
    /\ pc' = "loop"
    /\ runs' = runs + 1
    /\ now' = now + 1
    /\ last_request_time' = 0
    /\ client_closed' = FALSE
    /\ fetched' = {}
    /\ saved_chars' = {}
    /\ requested' = <<>>
    /\ unlinked' = FALSE
    /\ page' = 0
    /\ first_total' = 0
    /\ words' = <<>>
    /\ result' = <<>>
    /\ UNCHANGED <<disk, cache, full_fetch>>

\* scrape_all: the loop is exhausted and all_words is returned to run()
LoopExit ==
    /\ pc = "loop"
    /\ index >= Len(Alphabet)
    /\ pc' = "process"
    /\ UNCHANGED <<config, state, disk, all_words, index, page, first_total, words,
                   result, cache, last_request_time, client_closed, now, runs,
                   loaded, fetched, saved_chars, full_fetch>>

\* mutant: scrape_character returns nothing for a completed domain
SkipCompleted_ReturnEmpty ==
    /\ pc = "loop"
    /\ index < Len(Alphabet)
    /\ is_completed(state, CurChar)
    /\ words' = <<>>
    /\ pc' = "extend"
    /\ UNCHANGED <<config, state, disk, all_words, index, page, first_total,
                   result, cache, last_request_time, client_closed, now, runs,
                   loaded, fetched, saved_chars, full_fetch>>

\* scrape_character: the domain is already completed, its stored words are
\* returned without a fetch
SkipCompleted ==
    /\ pc = "loop"
    /\ index < Len(Alphabet)
    /\ is_completed(state, CurChar)
    /\ CurChar \in DictKeys(state.partial_results)
    /\ words' = DictGet(state.partial_results, CurChar)
    /\ pc' = "extend"
    /\ UNCHANGED <<config, state, disk, all_words, index, page, first_total,
                   result, cache, last_request_time, client_closed, now, runs,
                   loaded, fetched, saved_chars, full_fetch>>

\* scrape_character: fetch_all_pages(char) is called
StartFetch ==
    /\ pc = "loop"
    /\ index < Len(Alphabet)
    /\ ~is_completed(state, CurChar)
    /\ fetched' = fetched \cup {CurChar}
    /\ requested' = <<>>
    /\ words' = <<>>
    /\ page' = 1
    /\ first_total' = 0
    /\ pc' = "fetch"
    /\ UNCHANGED <<config, state, disk, all_words, index, result, cache,
                   last_request_time, client_closed, now, runs, loaded,
                   saved_chars, full_fetch>>

\* mutant: fetch_all_pages returns after the first page
TakePage_FirstPageOnly(resp) ==
    /\ first_total' = total_pages(resp.total_count)
    /\ page' = page
    /\ words' = IF config.normalize_unicode
                THEN [i \in 1..Len(words \o resp.words) |->
                        normalize_thai_unicode((words \o resp.words)[i])]
                ELSE words \o resp.words
    /\ pc' = "mark"
    /\ full_fetch' = full_fetch \cup {CurChar}

\* mutant: fetch_all_pages puts each later page in front of the earlier ones
TakePage_PrependWords(resp) ==
    LET total == IF page = 1 THEN total_pages(resp.total_count) ELSE first_total
        ws == resp.words \o words
    IN /\ first_total' = total
       /\ IF page + 1 <= total
          THEN /\ page' = page + 1
               /\ words' = ws
               /\ pc' = "fetch"
               /\ UNCHANGED full_fetch
          ELSE /\ page' = page
               /\ words' = IF config.normalize_unicode
                           THEN [i \in 1..Len(ws) |-> normalize_thai_unicode(ws[i])]
                           ELSE ws
               /\ pc' = "mark"
               /\ full_fetch' = full_fetch \cup {CurChar}

\* what fetch_all_pages does with the response to the page it asked for;
\* after the last page scrape_character normalizes the list
TakePage(resp) ==
    LET total == IF page = 1 THEN total_pages(resp.total_count) ELSE first_total
        ws == words \o resp.words
    IN /\ first_total' = total
       /\ IF page + 1 <= total
          THEN /\ page' = page + 1
               /\ words' = ws
               /\ pc' = "fetch"
               /\ UNCHANGED full_fetch
          ELSE /\ page' = page
               /\ words' = IF config.normalize_unicode
                           THEN [i \in 1..Len(ws) |-> normalize_thai_unicode(ws[i])]
                           ELSE ws
               /\ pc' = "mark"
               /\ full_fetch' = full_fetch \cup {CurChar}

\* fetch_page answered from the cache: no network call
FetchPageCached ==
    /\ pc = "fetch"
    /\ requested' = Append(requested, page)
    /\ load_from_cache(config, cache, CurChar, page, TRUE)[1]
    /\ TakePage(load_from_cache(config, cache, CurChar, page, TRUE)[2])
    /\ UNCHANGED <<config, state, disk, all_words, index, result, cache,
                   last_request_time, client_closed, now, runs, loaded, fetched,
                   saved_chars>>

\* fetch_page over the network, successful (after the fetcher's retries).
\* In the orchestrator's specification the cache write succeeds; the cache's
\* I/O failures are part of the fetcher's own specification (SpecSeq).
FetchPageOk(read_ok) ==
    /\ pc = "fetch"
    /\ requested' = Append(requested, page)
    /\ ~load_from_cache(config, cache, CurChar, page, read_ok)[1]
    /\ LET resp == APIResponse(RemoteTotalCount(CurChar), RemoteWords(CurChar, page),
                               page, CurChar)
       IN /\ cache' = save_to_cache(config, cache, resp, "ok")
          /\ TakePage(resp)
    /\ last_request_time' = now
    /\ UNCHANGED <<config, state, disk, all_words, index, result, client_closed,
                   now, runs, loaded, fetched, saved_chars>>

\* fetch_page raises: fetch_all_pages, scrape_character, scrape_all and run
\* propagate the exception; run's finally closes the client
FetchPageFail(read_ok) ==
    /\ pc = "fetch"
    /\ requested' = Append(requested, page)
    /\ ~load_from_cache(config, cache, CurChar, page, read_ok)[1]
    /\ pc' = "failed"
    /\ client_closed' = TRUE
    /\ UNCHANGED <<config, state, disk, all_words, index, page, first_total, words,
                   result, cache, last_request_time, now, runs, loaded, fetched,
                   saved_chars, full_fetch>>

\* progress.mark_char_completed: state.mark_completed(char, words)
MarkCompleted ==
    /\ pc = "mark"
    /\ state' = mark_completed(state, CurChar, words, now)
    /\ pc' = "mark_save"
    /\ UNCHANGED <<config, disk, all_words, index, page, first_total, words, result,
                   cache, last_request_time, client_closed, now, runs, loaded,
                   fetched, saved_chars, full_fetch>>

\* mutant: the loop of scrape_all steps over the next domain
AfterSave_SkipNext ==
    IF pc \in {"mark_save", "mark_write"}
    THEN /\ pc' = "extend"
         /\ UNCHANGED index
    ELSE /\ pc' = "loop"
         /\ index' = IF index + 2 <= Len(Alphabet) THEN index + 2 ELSE index + 1

\* where the run continues when save() returns
AfterSave ==
    IF pc \in {"mark_save", "mark_write"}
    THEN /\ pc' = "extend"
         /\ UNCHANGED index
    ELSE /\ pc' = "loop"
         /\ index' = index + 1

\* save(): progress_file.parent.mkdir(...) raises OSError, outside the try of
\* save(): mark_char_completed or update_char_index, scrape_character,
\* scrape_all and run propagate it; run's finally closes the client
SaveMkdirFail ==
    /\ pc \in {"mark_save", "index_save"}
    /\ pc' = "save_failed"
    /\ client_closed' = TRUE
    /\ UNCHANGED <<config, state, disk, all_words, index, page, first_total, words,
                   result, cache, last_request_time, now, runs, loaded, fetched,
                   saved_chars, full_fetch>>

\* save(): open(progress_file, 'w') truncates the file
SaveOpen ==
    /\ pc \in {"mark_save", "index_save"}
    /\ disk' = FileCorrupt
    /\ saved_chars' = saved_chars \cup {CurChar}
    /\ pc' = IF pc = "mark_save" THEN "mark_write" ELSE "index_write"
    /\ UNCHANGED <<config, state, all_words, index, page, first_total, words, result,
                   cache, last_request_time, client_closed, now, runs, loaded,
                   fetched, full_fetch>>

\* save(): open() raises IOError, which save() logs and swallows
SaveOpenFail ==
    /\ pc \in {"mark_save", "index_save"}
    /\ AfterSave
    /\ UNCHANGED <<config, state, disk, all_words, page, first_total, words, result,
                   cache, last_request_time, client_closed, now, runs, loaded,
                   fetched, saved_chars, full_fetch>>

\* save(): json.dump writes the whole document
SaveWrite ==
    /\ pc \in {"mark_write", "index_write"}
    /\ \E order \in SaveOrders(state.completed_chars) :
          disk' = FileOk(ToJson(state, order))
    /\ AfterSave
    /\ UNCHANGED <<config, state, all_words, page, first_total, words, result,
                   cache, last_request_time, client_closed, now, runs, loaded,
                   fetched, saved_chars, full_fetch>>

\* save(): json.dump raises IOError part-way, which save() logs and swallows
SaveWriteFail ==
    /\ pc \in {"mark_write", "index_write"}
    /\ AfterSave
    /\ UNCHANGED <<config, state, disk, all_words, page, first_total, words, result,
                   cache, last_request_time, client_closed, now, runs, loaded,
                   fetched, saved_chars, full_fetch>>

\* scrape_all: all_words.extend(words); update_char_index(index + 1) up to save()
ExtendAndIndex ==
    /\ pc = "extend"
    /\ all_words' = all_words \o words
    /\ state' = [state EXCEPT !.current_char_index = index + 1]
    /\ pc' = "index_save"
    /\ UNCHANGED <<config, disk, index, page, first_total, words, result, cache,
                   last_request_time, client_closed, now, runs, loaded, fetched,
                   saved_chars, full_fetch>>

\* run: process_words(raw_words)
Process ==
    /\ pc = "process"
    /\ result' = process_words(all_words, config)
    /\ pc' = "clear"
    /\ UNCHANGED <<config, state, disk, all_words, index, page, first_total, words,
                   cache, last_request_time, client_closed, now, runs, loaded,
                   fetched, saved_chars, full_fetch>>

\* run: progress.clear()
Clear(unlink_ok) ==
    /\ pc = "clear"
    /\ state' = clear(disk, unlink_ok)[1]
    /\ disk' = clear(disk, unlink_ok)[2]
    /\ unlinked' = (disk.kind # "absent" /\ unlink_ok)
    /\ pc' = "cleared"
    /\ UNCHANGED <<config, all_words, index, page, first_total, words, result, cache,
                   last_request_time, client_closed, now, runs, loaded, fetched,
                   saved_chars, full_fetch, requested>>

\* run after progress.clear(): the two log lines, `return processed_words`,
\* and the finally clause closes the client
ReturnProcessed ==
    /\ pc = "cleared"
    /\ pc' = "done"
    /\ client_closed' = TRUE
    /\ UNCHANGED <<config, state, disk, all_words, index, page, first_total, words,
                   result, cache, last_request_time, now, runs, loaded, fetched,
                   saved_chars, full_fetch>>

\* a KeyboardInterrupt that propagates without the finally clause
Interrupt_NoClose ==
    /\ pc \in RunningPcs
    /\ pc' = "interrupted"
    /\ UNCHANGED <<config, state, disk, all_words, index, page, first_total, words,
                   result, cache, last_request_time, client_closed, now, runs, loaded,
                   fetched, saved_chars, full_fetch>>

\* KeyboardInterrupt at any point of run(): it propagates through scrape_all
\* and run, whose finally clause closes the client
Interrupt ==
    /\ pc \in RunningPcs
    /\ pc' = "interrupted"
    /\ client_closed' = TRUE
    /\ UNCHANGED <<config, state, disk, all_words, index, page, first_total, words,
                   result, cache, last_request_time, now, runs, loaded, fetched,
                   saved_chars, full_fetch>>

Next ==
    \/ \E cfg \in Configs, resume \in BOOLEAN, read_ok \in BOOLEAN :
          Construct(cfg, resume, read_ok) /\ UNCHANGED <<seq_vars, async_vars, crawl_vars>>
    \/ LoopExit /\ UNCHANGED <<log_vars, seq_vars, async_vars, crawl_vars>>
    \/ SkipCompleted /\ UNCHANGED <<log_vars, seq_vars, async_vars, crawl_vars>>
    \/ StartFetch /\ UNCHANGED <<unlinked, seq_vars, async_vars, crawl_vars>>
    \/ FetchPageCached /\ UNCHANGED <<unlinked, seq_vars, async_vars, crawl_vars>>
    \/ \E read_ok \in BOOLEAN : FetchPageOk(read_ok) /\ UNCHANGED <<unlinked, seq_vars, async_vars, crawl_vars>>
    \/ \E read_ok \in BOOLEAN : FetchPageFail(read_ok) /\ UNCHANGED <<unlinked, seq_vars, async_vars, crawl_vars>>
    \/ MarkCompleted /\ UNCHANGED <<log_vars, seq_vars, async_vars, crawl_vars>>
    \/ SaveMkdirFail /\ UNCHANGED <<log_vars, seq_vars, async_vars, crawl_vars>>
    \/ SaveOpen /\ UNCHANGED <<log_vars, seq_vars, async_vars, crawl_vars>>
    \/ SaveOpenFail /\ UNCHANGED <<log_vars, seq_vars, async_vars, crawl_vars>>
    \/ SaveWrite /\ UNCHANGED <<log_vars, seq_vars, async_vars, crawl_vars>>
    \/ SaveWriteFail /\ UNCHANGED <<log_vars, seq_vars, async_vars, crawl_vars>>
    \/ ExtendAndIndex /\ UNCHANGED <<log_vars, seq_vars, async_vars, crawl_vars>>
    \/ Process /\ UNCHANGED <<log_vars, seq_vars, async_vars, crawl_vars>>
    \/ \E unlink_ok \in BOOLEAN : Clear(unlink_ok) /\ UNCHANGED <<seq_vars, async_vars, crawl_vars>>
    \/ ReturnProcessed /\ UNCHANGED <<log_vars, seq_vars, async_vars, crawl_vars>>
    \/ Interrupt /\ UNCHANGED <<log_vars, seq_vars, async_vars, crawl_vars>>

Spec == Init /\ [][Next]_vars

-----------------------------------------------------------------------------
(* What a complete crawl of one domain yields                              *)

RECURSIVE RemotePagesFrom(_, _)
RemotePagesFrom(c, p) ==
    IF p > 1 /\ p > total_pages(RemoteTotalCount(c)) THEN <<>>
    ELSE RemoteWords(c, p) \o RemotePagesFrom(c, p + 1)

NormalizeAll(ws) == [i \in 1..Len(ws) |-> normalize_thai_unicode(ws[i])]

\* the list scrape_character returns for a domain it fetched
DomainWords(c, cfg) ==
    IF cfg.normalize_unicode THEN NormalizeAll(RemotePagesFrom(c, 1))
    ELSE RemotePagesFrom(c, 1)

PersistedChars == Range(disk.data.completed_chars)

-----------------------------------------------------------------------------
(* Claims on the orchestrator (specification Spec)                         *)

\* C1: when fetch_all_pages fails for the domain at index i during scrape_all,
\* the error reaches the caller (pc = "failed") and then the checkpoint, in
\* memory and on disk if a file exists, does not contain that domain in
\* completed_chars or partial_results, current_char_index is still i, and no
\* save was made for that domain.
C1_FailedDomainAbsentFromCheckpoint ==
    pc = "failed" =>
        /\ CurChar \notin state.completed_chars
        /\ CurChar \notin DictKeys(state.partial_results)
        /\ state.current_char_index = index
        /\ CurChar \notin saved_chars
        /\ disk.kind = "ok" =>
              /\ CurChar \notin PersistedChars
              /\ CurChar \notin DictKeys(disk.data.partial_results)

\* the part of C1 about the process's own state, which the code satisfies
C1_InMemoryPart ==
    pc = "failed" =>
        /\ CurChar \notin state.completed_chars
        /\ CurChar \notin DictKeys(state.partial_results)
        /\ state.current_char_index = index
        /\ CurChar \notin saved_chars

\* whether st records exactly the first current_char_index domains as completed
RecordsPrefix(st) ==
    /\ st.current_char_index <= Len(Alphabet)
    /\ st.completed_chars = {Alphabet[j] : j \in 1..st.current_char_index}

\* C2: a run resumed from a checkpoint recording the first k domains as
\* completed with current_char_index = k calls fetch_all_pages only for the
\* domains at indices k..len-1, and the set of words scrape_all returns is the
\* union of the word sets of all domains.
C2_ResumeFetchesOnlyTheRest ==
    (pc \in RunningPcs /\ loaded.ok /\ RecordsPrefix(loaded.st)) =>
        /\ fetched \subseteq {Alphabet[j] : j \in (loaded.st.current_char_index + 1)..Len(Alphabet)}
        /\ pc \in {"process", "clear", "cleared"} =>
              /\ fetched = {Alphabet[j] : j \in (loaded.st.current_char_index + 1)..Len(Alphabet)}
              /\ Range(all_words) = UNION {Range(DomainWords(c, config)) : c \in AlphabetSet}

C2_Witness ==
    /\ pc = "process"
    /\ loaded.ok
    /\ RecordsPrefix(loaded.st)
    /\ loaded.st.current_char_index \in 1..(Len(Alphabet) - 1)
    /\ all_words # <<>>

\* C3: whenever a crawl is interrupted, the checkpoint file can be loaded (it
\* is absent or a complete document) and records only domains whose fetch
\* fully completed, each with its complete word list.
C3_InterruptLeavesLoadableCheckpoint ==
    pc = "interrupted" =>
        /\ disk.kind # "corrupt"
        /\ disk.kind = "ok" =>
              \A c \in PersistedChars :
                  /\ c \in full_fetch
                  /\ c \in DictKeys(disk.data.partial_results)
                  /\ DictGet(disk.data.partial_results, c) = DomainWords(c, config)

\* C4: in every reachable state every alphabet symbol at an index below the
\* persisted current_char_index is in the persisted completed_chars, and every
\* persisted completed domain had all its pages fetched: its persisted word
\* list is the complete list of the domain.
C4_PersistedCheckpointConsistent ==
    disk.kind = "ok" =>
        /\ \A j \in 1..disk.data.current_char_index :
              j <= Len(Alphabet) /\ Alphabet[j] \in PersistedChars
        /\ \A c \in PersistedChars :
              /\ c \in full_fetch
              /\ c \in DictKeys(disk.data.partial_results)
              /\ DictGet(disk.data.partial_results, c) = DomainWords(c, config)

\* a checkpoint with committed domains is on disk while a later domain is
\* partially fetched
C4_Witness ==
    /\ disk.kind = "ok"
    /\ disk.data.current_char_index >= 1
    /\ pc = "fetch"
    /\ page = 2
    /\ words # <<>>

-----------------------------------------------------------------------------
(* The checkpoint store on its own: any sequence of ProgressTracker        *)
(* operations on one file (specification SpecTracker), with the arguments  *)
(* of tests/test_progress_tracker.py                                       *)

TrackerChars == {THAI_ALPHABET[1], THAI_ALPHABET[2]}

TrackerLists(c) ==
    IF c = THAI_ALPHABET[1] THEN {<<>>, << <<c>> >>}
    ELSE {<<>>, << <<c>>, <<c, 3634>> >>}

TrackerIndexes == 0..Cardinality(TrackerChars)

tracker_unchanged ==
    UNCHANGED <<pc, config, all_words, index, page, first_total, words, result,
                cache, last_request_time, client_closed, now, runs, loaded,
                fetched, saved_chars, full_fetch, log_vars, seq_vars, async_vars, crawl_vars>>

InitTracker ==
    /\ pc = "tracker"
    /\ config = CHOOSE cfg \in Configs : cfg.resume_enabled /\ cfg.cache_enabled /\ cfg.normalize_unicode
    /\ state = FreshState
    /\ disk = FileAbsent
    /\ all_words = <<>>
    /\ index = 0
    /\ page = 0
    /\ first_total = 0
    /\ words = <<>>
    /\ result = <<>>
    /\ cache = [k \in CacheKeys |-> NoEntry]
    /\ last_request_time = 0
    /\ client_closed = FALSE
    /\ now = 1
    /\ runs = 0
    /\ loaded = [ok |-> FALSE, st |-> FreshState, resume |-> FALSE]
    /\ fetched = {}
    /\ saved_chars = {}
    /\ full_fetch = {}
    /\ requested = <<>>
    /\ unlinked = FALSE
    /\ completed = <<>>
    /\ s_call = NoCall
    /\ s_prev = NoCall
    /\ last_sent = -1
    /\ prev_sent = -1
    /\ tasks = <<>>
    /\ permits = 0
    /\ max_concurrent = 0
    /\ payload_format = "strings"
    /\ since_sent = -1
    /\ last_gap = -1
    /\ fetches = <<>>
    /\ domains = <<>>
    /\ domain_words = <<>>

\* ProgressTracker.mark_char_completed(char, words)
TMarkCharCompleted(c, ws, io) ==
    /\ state.total_words_scraped + Len(ws) <= MaxTotalWords
    /\ state' = mark_completed(state, c, ws, now)
    /\ \E order \in Orderings(state'.completed_chars) :
          disk' = save(disk, state', io, order)
    /\ tracker_unchanged

\* ProgressTracker.update_char_index(index)
TUpdateCharIndex(i, io) ==
    /\ state' = [state EXCEPT !.current_char_index = i]
    /\ \E order \in Orderings(state'.completed_chars) :
          disk' = save(disk, state', io, order)
    /\ tracker_unchanged

\* ProgressTracker.save()
TSave(io) ==
    /\ \E order \in Orderings(state.completed_chars) :
          disk' = save(disk, state, io, order)
    /\ UNCHANGED state
    /\ tracker_unchanged

\* ProgressTracker.load(), also by a new tracker on the same file
TLoad(fresh_tracker, read_ok) ==
    /\ state' = load(disk, IF fresh_tracker THEN FreshState ELSE state, read_ok)[2]
    /\ UNCHANGED disk
    /\ tracker_unchanged

\* ProgressTracker.clear()
TClear(unlink_ok) ==
    /\ state' = clear(disk, unlink_ok)[1]
    /\ disk' = clear(disk, unlink_ok)[2]
    /\ tracker_unchanged

NextTracker ==
    \/ \E c \in TrackerChars, io \in IoOutcomes : \E ws \in TrackerLists(c) :
          TMarkCharCompleted(c, ws, io)
    \/ \E i \in TrackerIndexes, io \in IoOutcomes : TUpdateCharIndex(i, io)
    \/ \E io \in IoOutcomes : TSave(io)
    \/ \E fresh_tracker \in BOOLEAN, read_ok \in BOOLEAN : TLoad(fresh_tracker, read_ok)
    \/ \E unlink_ok \in BOOLEAN : TClear(unlink_ok)

SpecTracker == InitTracker /\ [][NextTracker]_vars

\* C5: after any sequence of mark_char_completed, update_char_index, save,
\* load and clear, completed_chars equals the key set of partial_results, in
\* the in-memory state and in the persisted checkpoint.
C5_CompletedEqualsKeys ==
    /\ state.completed_chars = DictKeys(state.partial_results)
    /\ disk.kind = "ok" => PersistedChars = DictKeys(disk.data.partial_results)

\* two domains were marked, saved, and loaded back by a new tracker
C5_Witness ==
    /\ Cardinality(state.completed_chars) = 2
    /\ disk.kind = "ok"
    /\ Cardinality(PersistedChars) = 2
    /\ state = FromJson(disk.data)
    /\ state.current_char_index = 2

\* ---------------------------------------------------------------------------
\* The sequential fetcher on its own: one ORSTAPIClient, fetch_page called
\* again and again on a clock in milliseconds.  last_request_time starts at 0
\* (the epoch), far before the clock's first value.

SeqStartTime == MaxTime - 600

\* how long one session.get takes, retries of the adapter included
RequestDurations == {100, 300}

\* time that passes between two calls of fetch_page
IdleTimes == {200}

\* what session.get and raise_for_status() end in:
\*   "status200"  a response that passes the status check
\*   "retryable"  429/5xx, timeout or connection failure on every attempt the
\*                adapter's Retry(total=max_retries) makes
\*   "client4xx"  a status raise_for_status() rejects and the adapter does not retry
SeqOutcomes == {"status200", "retryable", "client4xx"}

SeqConfigs ==
    {c \in [cache_enabled : BOOLEAN, resume_enabled : {TRUE}, normalize_unicode : {TRUE},
            include_compound_words : {TRUE}, validate_thai_only : {TRUE},
            delay_ms : {0, DEFAULT_DELAY_MS}, max_retries : {MAX_RETRIES}] : TRUE}

SeqKeys == {k \in CacheKeys : k[1] = THAI_ALPHABET[1]}

\* ORSTAPIClient._wait_for_rate_limit: the time slept
wait_for_rate_limit(cfg, t, lrt) ==
    IF cfg.delay_ms <= 0 THEN 0
    ELSE IF t - lrt < cfg.delay_ms THEN cfg.delay_ms - (t - lrt)
    ELSE 0

seq_unchanged ==
    <<pc, config, state, disk, all_words, index, page, first_total, words, result,
      client_closed, runs, loaded, fetched, saved_chars, full_fetch, log_vars, async_vars, crawl_vars>>

InitSeq ==
    /\ pc = "client"
    /\ config \in SeqConfigs
    /\ state = FreshState
    /\ disk = FileAbsent
    /\ all_words = <<>>
    /\ index = 0
    /\ page = 0
    /\ first_total = 0
    /\ words = <<>>
    /\ result = <<>>
    /\ cache = [k \in CacheKeys |-> NoEntry]
    /\ last_request_time = 0
    /\ client_closed = FALSE
    /\ now = SeqStartTime
    /\ runs = 0
    /\ loaded = FALSE
    /\ fetched = {}
    /\ saved_chars = {}
    /\ full_fetch = {}
    /\ requested = <<>>
    /\ unlinked = FALSE
    /\ completed = <<>>
    /\ s_call = NoCall
    /\ s_prev = NoCall
    /\ last_sent = -1
    /\ prev_sent = -1
    /\ tasks = <<>>
    /\ permits = 0
    /\ max_concurrent = 0
    /\ payload_format = "strings"
    /\ since_sent = -1
    /\ last_gap = -1
    /\ fetches = <<>>
    /\ domains = <<>>
    /\ domain_words = <<>>

\* ORSTAPIClient.fetch_page(d, p), served from the cache
SeqFetchCached(d, p) ==
    LET hit == load_from_cache(config, cache, d, p, TRUE) IN
    /\ pc = "client"
    /\ hit[1]
    /\ s_prev' = Earlier(s_call)
    /\ s_call' = [key |-> <<d, p>>, outcome |-> "returned", cache_hit |-> TRUE,
                  gets |-> 0, waited |-> 0, resp |-> hit[2],
                  lrt_changed |-> FALSE, io_failed |-> FALSE, status200 |-> FALSE,
                  body |-> NoBody, saved |-> FALSE]
    /\ UNCHANGED <<cache, last_request_time, now, last_sent, prev_sent>>
    /\ UNCHANGED seq_unchanged

\* ORSTAPIClient.fetch_page(d, p) that goes to the network: the cache has no
\* usable entry (or read_ok is FALSE: reading it raised OSError).  dur is the
\* duration of session.get, body the decoded body of a status-200 response,
\* io the outcome of the cache write
SeqFetchNetwork(d, p, read_ok, outcome, body, dur, io) ==
    LET hit == load_from_cache(config, cache, d, p, read_ok)
        slept == wait_for_rate_limit(config, now, last_request_time)
        sent == now + slept
        passed == outcome = "status200"
        valid == passed /\ seq_body_error(body) = "none"
        resp == APIResponse(body.count, body.words, p, d)
    IN
    /\ pc = "client"
    /\ ~hit[1]
    /\ read_ok \/ ReadFails(config, cache, d, p, read_ok)
    /\ passed \/ body = NoBody
    /\ sent + dur <= MaxTime
    /\ now' = sent + dur
    /\ prev_sent' = last_sent
    /\ last_sent' = sent
    /\ last_request_time' = IF passed THEN now' ELSE last_request_time
    /\ cache' = IF valid THEN save_to_cache(config, cache, resp, io) ELSE cache
    /\ s_prev' = Earlier(s_call)
    /\ s_call' = [key |-> <<d, p>>,
                  outcome |-> IF valid THEN "returned"
                              ELSE IF passed THEN "ValueError" ELSE "RequestException",
                  cache_hit |-> FALSE, gets |-> 1, waited |-> slept,
                  resp |-> IF valid THEN resp ELSE APIResponse(0, <<>>, 0, 0),
                  lrt_changed |-> passed,
                  io_failed |-> \/ ReadFails(config, cache, d, p, read_ok)
                                \/ valid /\ config.cache_enabled /\ io # "ok",
                  status200 |-> passed,
                  body |-> body,
                  saved |-> cache' # cache]
    /\ UNCHANGED seq_unchanged

\* time passes between two calls
SeqIdle(dt) ==
    /\ pc = "client"
    /\ now + dt <= MaxTime
    /\ now' = now + dt
    /\ UNCHANGED <<cache, last_request_time, s_call, s_prev, last_sent, prev_sent>>
    /\ UNCHANGED seq_unchanged

NextSeq ==
    \/ \E k \in SeqKeys : SeqFetchCached(k[1], k[2])
    \/ \E k \in SeqKeys, read_ok \in BOOLEAN, dur \in RequestDurations :
          \E outcome \in SeqOutcomes \ {"status200"} :
              SeqFetchNetwork(k[1], k[2], read_ok, outcome, NoBody, dur, "ok")
    \/ \E k \in SeqKeys, read_ok \in BOOLEAN, dur \in RequestDurations :
          \E body \in Bodies(k[1], k[2]) :
              \E io \in IF seq_body_error(body) = "none" THEN IoOutcomes ELSE {"ok"} :
                  SeqFetchNetwork(k[1], k[2], read_ok, "status200", body, dur, io)
    \/ \E dt \in IdleTimes : SeqIdle(dt)

SpecSeq == InitSeq /\ [][NextSeq]_vars

\* C7: in the sequential client any two consecutive network requests are at
\* least delay_ms apart, whether the earlier one succeeded or failed
C7_ConsecutiveRequestsDelayApart ==
    (pc = "client" /\ config.delay_ms > 0 /\ prev_sent >= 0)
        => last_sent - prev_sent >= config.delay_ms

\* the part of C7 that holds: a request that follows a request whose status
\* check passed is sent at least delay_ms after it
C7_AfterPassedRequest ==
    (pc = "client" /\ config.delay_ms > 0 /\ prev_sent >= 0 /\ s_call.gets = 1
     /\ s_prev.lrt_changed)
        => last_sent - prev_sent >= config.delay_ms

\* C8: with caching enabled and no cache I/O failure, the second of two
\* successive fetch_page calls for the same (domain, page) is served from the
\* cache: the two calls make one network call (session.get) in total, return
\* equal responses, and the second neither waits for the rate limit nor
\* changes last_request_time
C8_SecondCallServedFromCache ==
    (/\ pc = "client"
     /\ config.cache_enabled
     /\ s_prev.outcome = "returned" /\ ~s_prev.cache_hit /\ ~s_prev.io_failed
     /\ s_call.outcome # "none" /\ s_call.key = s_prev.key /\ ~s_call.io_failed)
        => /\ s_call.outcome = "returned"
           /\ s_call.cache_hit
           /\ s_prev.gets + s_call.gets = 1
           /\ s_call.resp = s_prev.resp
           /\ s_call.waited = 0
           /\ ~s_call.lrt_changed

C8_Witness ==
    /\ pc = "client"
    /\ config.cache_enabled /\ config.delay_ms > 0
    /\ s_prev.outcome = "returned" /\ ~s_prev.cache_hit /\ ~s_prev.io_failed
    /\ s_call.key = s_prev.key /\ s_call.cache_hit
    /\ now - last_request_time < config.delay_ms

\* ---------------------------------------------------------------------------
\* The bounded-concurrent fetcher: NumTasks fetch_page coroutines on one
\* AsyncORSTAPIClient, each started at any time.  Time is in milliseconds.  A
\* coroutine suspended in asyncio.sleep or in client.get carries the time
\* left until it can go on; when the event loop has nothing to run, time
\* advances to the next such moment.

Tasks == 1..NumTasks

\* the (domain, page) coroutine t fetches: two coroutines for each page of the
\* first domain
KeyOf(t) == <<THAI_ALPHABET[1], (((t - 1) \div 2) % MaxPage) + 1>>

AsyncConfigs ==
    {c \in [cache_enabled : BOOLEAN, resume_enabled : {TRUE}, normalize_unicode : {TRUE},
            include_compound_words : {TRUE}, validate_thai_only : {TRUE},
            delay_ms : {0, DEFAULT_DELAY_MS}, max_retries : 0..MaxRetries] : TRUE}

\* what one client.get and the parsing after it end in:
\*   "ok"         status 200 with a body the parsing accepts
\*   "retryable"  429/5xx (HTTPStatusError), timeout or connection failure
\*   "client4xx"  another 4xx (HTTPStatusError)
\*   "malformed"  status 200 with a body the parsing rejects (ValueError)
AsyncOutcomes == {"ok", "retryable", "client4xx", "malformed"}

\* the outcome of an attempt that was answered with status 200 and `body`
async_parse_outcome(body) == IF async_body_ok(body) THEN "ok" ELSE "malformed"

\* the items of the body's list: strings, or objects with a "headword" key
PayloadFormats == {"strings", "objects"}

\* pc: where the coroutine is; left: the time left of its sleep or request;
\* attempt: the index of the retry loop; result, error: what fetch_page
\* returned or raised.  The rest is the history of its network attempts:
\* sends (requests sent), fails (attempts that failed), first (the outcome of
\* the first attempt), retryable_only (no attempt failed otherwise than
\* retryably), succeeded (an attempt returned a body that parsed), wellformed
\* (that body was a list of a non-negative integer and a list)
NewTask ==
    [pc |-> "new", left |-> 0, attempt |-> 0, sends |-> 0, fails |-> 0, first |-> "none",
     retryable_only |-> TRUE, succeeded |-> FALSE, wellformed |-> FALSE,
     result |-> APIResponse(0, <<>>, 0, 0), error |-> "none", cache_hit |-> FALSE]

RECURSIVE Pow(_, _)
Pow(b, n) == IF n = 0 THEN 1 ELSE b * Pow(b, n - 1)

\* the backoff after failed attempt number `attempt` (0-based), in milliseconds
backoff_delay(attempt) == 1000 * Pow(RETRY_BACKOFF_BASE, attempt + 1)

\* the retry loop goes on after failed attempt number `attempt`
retries_left(cfg, attempt) == attempt < cfg.max_retries

\* AsyncORSTAPIClient._load_from_cache: <<"hit" | "miss" | "OSError", response>>
async_load_from_cache(cfg, c, d, p, read_ok) ==
    IF ~cfg.cache_enabled \/ c[<<d, p>>].kind = "absent"
    THEN <<"miss", APIResponse(0, <<>>, 0, 0)>>
    ELSE IF ~read_ok THEN <<"OSError", APIResponse(0, <<>>, 0, 0)>>
    ELSE IF c[<<d, p>>].kind = "corrupt" THEN <<"miss", APIResponse(0, <<>>, 0, 0)>>
    ELSE <<"hit", APIResponse(c[<<d, p>>].total_count, c[<<d, p>>].words,
                              c[<<d, p>>].page, c[<<d, p>>].domain)>>

\* AsyncORSTAPIClient._save_to_cache: the cache afterwards.  write_text raises
\* OSError when io is "open" (the file is untouched) or "write" (the file is
\* left truncated); nothing catches it
async_save_to_cache(cfg, c, resp, io) ==
    IF ~cfg.cache_enabled \/ io = "open" THEN c
    ELSE IF io = "write" THEN [c EXCEPT ![<<resp.domain, resp.page>>] = BadEntry]
    ELSE [c EXCEPT ![<<resp.domain, resp.page>>] = CacheEntry(resp)]

\* the words fetch_page keeps of the body's list: the headwords of its objects
async_words(format, ws) == IF format = "objects" THEN ws ELSE <<>>

async_unchanged ==
    <<pc, state, disk, all_words, index, page, first_total, words, result,
      last_request_time, client_closed, now, runs, loaded, fetched, saved_chars,
      full_fetch, log_vars, seq_vars, crawl_vars>>

InitAsync ==
    /\ pc = "async"
    /\ config \in AsyncConfigs
    /\ max_concurrent \in 1..NumTasks
    /\ payload_format \in PayloadFormats
    /\ permits = max_concurrent
    /\ tasks = [t \in Tasks |-> NewTask]
    /\ since_sent = -1
    /\ last_gap = -1
    /\ fetches = <<>>
    /\ domains = <<>>
    /\ domain_words = <<>>
    /\ state = FreshState
    /\ disk = FileAbsent
    /\ all_words = <<>>
    /\ index = 0
    /\ page = 0
    /\ first_total = 0
    /\ words = <<>>
    /\ result = <<>>
    /\ cache = [k \in CacheKeys |-> NoEntry]
    /\ last_request_time = 0
    /\ client_closed = FALSE
    /\ now = 0
    /\ runs = 0
    /\ loaded = FALSE
    /\ fetched = {}
    /\ saved_chars = {}
    /\ full_fetch = {}
    /\ requested = <<>>
    /\ unlinked = FALSE
    /\ completed = <<>>
    /\ s_call = NoCall
    /\ s_prev = NoCall
    /\ last_sent = -1
    /\ prev_sent = -1

\* fetch_page up to the semaphore: the cache check
AStart(t, read_ok) ==
    LET k == KeyOf(t)
        got == async_load_from_cache(config, cache, k[1], k[2], read_ok)
    IN
    /\ pc = "async"
    /\ tasks[t].pc = "new"
    /\ tasks' = [tasks EXCEPT ![t] =
                    IF got[1] = "hit"
                    THEN [@ EXCEPT !.pc = "done", !.result = got[2], !.cache_hit = TRUE]
                    ELSE IF got[1] = "OSError"
                    THEN [@ EXCEPT !.pc = "failed", !.error = "OSError"]
                    ELSE [@ EXCEPT !.pc = "acquire"]]
    /\ UNCHANGED <<config, cache, permits, max_concurrent, payload_format, since_sent, last_gap>>
    /\ UNCHANGED async_unchanged

\* `async with self.semaphore` entered, then _wait_for_rate_limit starts
AAcquire(t) ==
    /\ pc = "async"
    /\ tasks[t].pc = "acquire"
    /\ permits > 0
    /\ permits' = permits - 1
    /\ tasks' = [tasks EXCEPT ![t] =
                    IF config.delay_ms > 0
                    THEN [@ EXCEPT !.pc = "sleep", !.left = config.delay_ms]
                    ELSE [@ EXCEPT !.pc = "send"]]
    /\ UNCHANGED <<config, cache, max_concurrent, payload_format, since_sent, last_gap>>
    /\ UNCHANGED async_unchanged

\* the coroutine can send: it never slept, or its sleep is over
CanSend(t) ==
    \/ tasks[t].pc = "send"
    \/ tasks[t].pc \in {"sleep", "backoff"} /\ tasks[t].left = 0

\* client.get(...) sends the request of loop iteration `attempt`
ASend(t, dur) ==
    /\ pc = "async"
    /\ CanSend(t)
    /\ tasks' = [tasks EXCEPT ![t] = [@ EXCEPT !.pc = "await", !.left = dur,
                                                !.sends = @ + 1]]
    /\ last_gap' = since_sent
    /\ since_sent' = 0
    /\ UNCHANGED <<config, cache, permits, max_concurrent, payload_format>>
    /\ UNCHANGED async_unchanged

\* the history of coroutine t after an attempt ended in `outcome`
Observed(t, outcome) ==
    [tasks[t] EXCEPT !.first = IF @ = "none" THEN outcome ELSE @,
                     !.fails = IF outcome = "ok" THEN @ ELSE @ + 1,
                     !.retryable_only = @ /\ outcome \in {"ok", "retryable"},
                     !.succeeded = outcome = "ok"]

\* client.get returns or raises, and the loop iteration runs to its end;
\* body is the decoded body when the outcome is "ok"
AResponse(t, outcome, body, io) ==
    LET k == KeyOf(t)
        resp == APIResponse(body.count, async_words(payload_format, body.words),
                            k[2], k[1])
        write_fails == config.cache_enabled /\ io # "ok"
        seen == Observed(t, outcome)
    IN
    /\ pc = "async"
    /\ tasks[t].pc = "await"
    /\ tasks[t].left = 0
    /\ IF outcome = "ok"
       THEN /\ cache' = async_save_to_cache(config, cache, resp, io)
            /\ permits' = permits + 1
            /\ tasks' = [tasks EXCEPT ![t] =
                            IF write_fails
                            THEN [seen EXCEPT !.pc = "failed", !.error = "OSError",
                                              !.wellformed = WellFormed(body)]
                            ELSE [seen EXCEPT !.pc = "done", !.result = resp,
                                              !.wellformed = WellFormed(body)]]
       ELSE IF retries_left(config, tasks[t].attempt)
       THEN /\ tasks' = [tasks EXCEPT ![t] =
                            [seen EXCEPT !.pc = "backoff",
                                         !.left = backoff_delay(tasks[t].attempt),
                                         !.attempt = @ + 1]]
            /\ UNCHANGED <<cache, permits>>
       ELSE /\ tasks' = [tasks EXCEPT ![t] =
                            [seen EXCEPT !.pc = "failed", !.error = "RuntimeError"]]
            /\ permits' = permits + 1
            /\ UNCHANGED cache
    /\ UNCHANGED <<config, max_concurrent, payload_format, since_sent, last_gap>>
    /\ UNCHANGED async_unchanged

Suspended == {t \in Tasks : tasks[t].pc \in {"sleep", "backoff", "await"}}

\* a coroutine that can run now
Ready(t) ==
    \/ tasks[t].pc = "send"
    \/ tasks[t].pc = "acquire" /\ permits > 0
    \/ t \in Suspended /\ tasks[t].left = 0

Min(a, b) == IF a <= b THEN a ELSE b

\* the event loop has nothing to run and waits for the next timer or response
ATick ==
    /\ pc = "async"
    /\ \A t \in Tasks : ~Ready(t)
    /\ Suspended # {}
    /\ LET dt == CHOOSE x \in {tasks[t].left : t \in Suspended} :
                     \A u \in Suspended : x <= tasks[u].left
       IN /\ tasks' = [t \in Tasks |->
                          IF t \in Suspended THEN [tasks[t] EXCEPT !.left = @ - dt]
                          ELSE tasks[t]]
          /\ since_sent' = IF since_sent < 0 THEN since_sent
                           ELSE Min(since_sent + dt, config.delay_ms)
    /\ UNCHANGED <<config, cache, permits, max_concurrent, payload_format, last_gap>>
    /\ UNCHANGED async_unchanged

NextAsync ==
    \/ \E t \in Tasks, read_ok \in BOOLEAN : AStart(t, read_ok)
    \/ \E t \in Tasks : AAcquire(t)
    \/ \E t \in Tasks, dur \in RequestDurations : ASend(t, dur)
    \/ \E t \in Tasks, outcome \in {"retryable", "client4xx"} :
          AResponse(t, outcome, NoBody, "ok")
    \/ \E t \in Tasks : \E body \in Bodies(KeyOf(t)[1], KeyOf(t)[2]) :
          \E io \in IF async_body_ok(body) THEN IoOutcomes ELSE {"ok"} :
              AResponse(t, async_parse_outcome(body), body, io)
    \/ ATick

SpecAsync == InitAsync /\ [][NextAsync]_vars

\* C6: in the bounded-concurrent client with delay_ms > 0 no two network
\* requests are sent less than delay_ms apart, whatever the number of
\* concurrent fetch_page callers
C6_GlobalDelayBetweenRequests ==
    (pc = "async" /\ config.delay_ms > 0 /\ last_gap >= 0)
        => last_gap >= config.delay_ms

\* every attempt of coroutine t is answered, and all but possibly the last failed retryably
OnlyRetryableFailures(t) ==
    /\ tasks[t].sends > 0
    /\ tasks[t].pc # "await"
    /\ tasks[t].retryable_only

\* C9: a fetch_page whose first k <= max_retries attempts fail retryably and
\* whose next attempt succeeds makes exactly k+1 network calls and returns
\* success; a fetch_page whose every attempt fails retryably stops after
\* exactly max_retries+1 network calls and raises
C9_RetryCounts ==
    pc = "async" =>
        \A t \in Tasks :
            /\ (OnlyRetryableFailures(t) /\ tasks[t].succeeded)
                   => /\ tasks[t].fails <= config.max_retries
                      /\ tasks[t].sends = tasks[t].fails + 1
                      /\ tasks[t].pc = "done"
            /\ (OnlyRetryableFailures(t) /\ ~tasks[t].succeeded)
                   => /\ tasks[t].sends = tasks[t].fails
                      /\ tasks[t].sends <= config.max_retries + 1
                      /\ tasks[t].sends <= config.max_retries => tasks[t].pc = "backoff"
                      /\ tasks[t].sends = config.max_retries + 1
                             => (tasks[t].pc = "failed" /\ tasks[t].error = "RuntimeError")

\* the part of C9 that holds: the same statement for the calls whose cache
\* write does not raise
C9_RetryCountsCacheWritable ==
    pc = "async" =>
        \A t \in Tasks :
            /\ (OnlyRetryableFailures(t) /\ tasks[t].succeeded /\ tasks[t].error # "OSError")
                   => /\ tasks[t].fails <= config.max_retries
                      /\ tasks[t].sends = tasks[t].fails + 1
                      /\ tasks[t].pc = "done"
            /\ (OnlyRetryableFailures(t) /\ ~tasks[t].succeeded)
                   => /\ tasks[t].sends = tasks[t].fails
                      /\ tasks[t].sends <= config.max_retries + 1
                      /\ tasks[t].sends <= config.max_retries => tasks[t].pc = "backoff"
                      /\ tasks[t].sends = config.max_retries + 1
                             => (tasks[t].pc = "failed" /\ tasks[t].error = "RuntimeError")

C9_WitnessRetryThenSuccess ==
    /\ pc = "async"
    /\ \E t \in Tasks : /\ tasks[t].pc = "done" /\ tasks[t].first = "retryable"
                        /\ tasks[t].retryable_only /\ tasks[t].sends = 2

\* C10: a 4xx other than 429, or a malformed payload, makes fetch_page fail
\* after exactly one network attempt, with no retry and no backoff wait
C10_FatalFailsAfterOneAttempt ==
    pc = "async" =>
        \A t \in Tasks :
            tasks[t].first \in {"client4xx", "malformed"}
                => /\ tasks[t].pc = "failed"
                   /\ tasks[t].sends = 1

\* C11: for a response body [total_count, words] with words a list of strings,
\* fetch_page returns that total_count, exactly that word list in that order,
\* and the requested domain and page (stated for the concurrent client)
C11_ResponseCarriesPayload ==
    pc = "async" =>
        \A t \in Tasks :
            (tasks[t].pc = "done" /\ ~tasks[t].cache_hit /\ tasks[t].wellformed
             /\ payload_format = "strings")
                => tasks[t].result =
                       APIResponse(RemoteTotalCount(KeyOf(t)[1]),
                                   RemoteWords(KeyOf(t)[1], KeyOf(t)[2]),
                                   KeyOf(t)[2], KeyOf(t)[1])

\* C12: whenever the decoded body is not a list of exactly two elements, or
\* its total_count is not a non-negative integer, or its words element is not
\* a list, fetch_page raises a validation error, returns no response and
\* writes no cache entry (stated for the sequential client)
C12_IllFormedBodyRejected ==
    (pc = "client" /\ s_call.status200 /\ ~WellFormed(s_call.body))
        => /\ s_call.outcome = "ValueError"
           /\ s_call.resp = APIResponse(0, <<>>, 0, 0)
           /\ ~s_call.saved

\* the part of C12 that holds in the sequential client: the same for every
\* ill-formed body but a negative count
C12_IllFormedBodyRejectedButNegative ==
    (pc = "client" /\ s_call.status200 /\ ~WellFormed(s_call.body)
     /\ ~(s_call.body.count_kind = "int" /\ s_call.body.count < 0))
        => /\ s_call.outcome = "ValueError"
           /\ s_call.resp = APIResponse(0, <<>>, 0, 0)
           /\ ~s_call.saved

\* ---------------------------------------------------------------------------
\* Claims on fetch_all_pages of the sequential client (specification Spec)

\* the pages 1..n in increasing order
PagesUpTo(n) == [i \in 1..n |-> i]

\* the words of the pages 1..n of domain c, concatenated in page order
RECURSIVE PagesConcat(_, _)
PagesConcat(c, n) == IF n = 0 THEN <<>> ELSE PagesConcat(c, n - 1) \o RemoteWords(c, n)

\* the number of pages fetch_all_pages asks for: total_pages of the response
\* to page 1, and page 1 in any case
PagesOf(c) ==
    IF total_pages(RemoteTotalCount(c)) <= 1 THEN 1 ELSE total_pages(RemoteTotalCount(c))

CrawlConfigs == {c \in AsyncConfigs : c.delay_ms = DEFAULT_DELAY_MS}

\* the cache directory the client finds: it holds page 1 of the first domain
\* from an earlier crawl
CrawlCache ==
    [k \in CacheKeys |->
        IF k = <<Alphabet[1], 1>>
        THEN CacheEntry(APIResponse(RemoteTotalCount(k[1]), RemoteWords(k[1], 1), 1, k[1]))
        ELSE NoEntry]

\* a fetch_page coroutine.  pc: "none" (not called), "new" (called, before
\* the cache check), "acquire" (waiting for the semaphore), "held" (inside
\* `async with self.semaphore`), "done" (returned result), "failed" (raised
\* error)
NewFetch == [pc |-> "none", result |-> APIResponse(0, <<>>, 0, 0), error |-> "none"]

\* a fetch_domain coroutine.  pc: "first" (fetch_all_pages awaits page 1),
\* "gather" (it awaits the other pages), "returned" (it returned words),
\* "raised" (it raised error)
NewDomain == [pc |-> "first", words |-> <<>>, error |-> "none"]

crawl_unchanged ==
    <<state, disk, all_words, index, page, first_total, words, result,
      last_request_time, client_closed, now, runs, loaded, fetched, saved_chars,
      full_fetch, log_vars, seq_vars, tasks, since_sent, last_gap, completed>>

InitCrawl ==
    /\ pc = "crawl"
    /\ config \in CrawlConfigs
    /\ max_concurrent \in 1..NumTasks
    /\ payload_format = "objects"
    /\ permits = max_concurrent
    /\ cache = CrawlCache
    /\ fetches = [k \in CacheKeys |-> IF k[2] = 1 THEN [NewFetch EXCEPT !.pc = "new"]
                                      ELSE NewFetch]
    /\ domains = [d \in AlphabetSet |-> NewDomain]
    /\ domain_words = <<>>
    /\ tasks = <<>>
    /\ since_sent = -1
    /\ last_gap = -1
    /\ state = FreshState
    /\ disk = FileAbsent
    /\ all_words = <<>>
    /\ index = 0
    /\ page = 0
    /\ first_total = 0
    /\ words = <<>>
    /\ result = <<>>
    /\ last_request_time = 0
    /\ client_closed = FALSE
    /\ now = 0
    /\ runs = 0
    /\ loaded = FALSE
    /\ fetched = {}
    /\ saved_chars = {}
    /\ full_fetch = {}
    /\ requested = <<>>
    /\ unlinked = FALSE
    /\ completed = <<>>
    /\ s_call = NoCall
    /\ s_prev = NoCall
    /\ last_sent = -1
    /\ prev_sent = -1

\* fetch_all_pages going on when fetch_page of key k has returned or raised;
\* fs is the fetch_page coroutines at that moment.  The result is the
\* fetch_page coroutines and the fetch_domain coroutines afterwards: after
\* page 1, fetch_all_pages raises, returns, or calls fetch_page for the pages
\* 2..total_pages and awaits them; a later page is waited for by gather
async_fetch_all_pages(fs, k) ==
    LET d == k[1]
        first_page == fs[k].result
        n == total_pages(first_page.total_count)
    IN IF k[2] # 1 \/ fs[k].pc \notin {"done", "failed"} THEN <<fs, domains>>
       ELSE IF fs[k].pc = "failed"
       THEN <<fs, [domains EXCEPT ![d] = [@ EXCEPT !.pc = "raised", !.error = fs[k].error]]>>
       ELSE IF n <= 1
       THEN <<fs, [domains EXCEPT ![d] =
                      [@ EXCEPT !.pc = "returned", !.words = first_page.words]]>>
       ELSE <<[j \in DOMAIN fs |->
                  IF j[1] = d /\ j[2] \in 2..n THEN [NewFetch EXCEPT !.pc = "new"]
                  ELSE fs[j]],
              [domains EXCEPT ![d] = [@ EXCEPT !.pc = "gather", !.words = first_page.words]]>>

\* fetch_page up to the semaphore: the cache check
CStart(k, read_ok) ==
    LET got == async_load_from_cache(config, cache, k[1], k[2], read_ok)
        fs == [fetches EXCEPT ![k] =
                  IF got[1] = "hit" THEN [@ EXCEPT !.pc = "done", !.result = got[2]]
                  ELSE IF got[1] = "OSError"
                  THEN [@ EXCEPT !.pc = "failed", !.error = "OSError"]
                  ELSE [@ EXCEPT !.pc = "acquire"]]
    IN
    /\ pc = "crawl"
    /\ fetches[k].pc = "new"
    /\ fetches' = async_fetch_all_pages(fs, k)[1]
    /\ domains' = async_fetch_all_pages(fs, k)[2]
    /\ UNCHANGED <<pc, config, cache, permits, max_concurrent, payload_format, domain_words>>
    /\ UNCHANGED crawl_unchanged

\* mutant: the semaphore lets every caller in
CAcquire_NoWait(k) ==
    /\ pc = "crawl"
    /\ fetches[k].pc = "acquire"
    /\ permits' = permits - 1
    /\ fetches' = [fetches EXCEPT ![k] = [@ EXCEPT !.pc = "held"]]
    /\ UNCHANGED <<pc, config, cache, max_concurrent, payload_format, domains, domain_words>>
    /\ UNCHANGED crawl_unchanged

\* `async with self.semaphore` entered
CAcquire(k) ==
    /\ pc = "crawl"
    /\ fetches[k].pc = "acquire"
    /\ permits > 0
    /\ permits' = permits - 1
    /\ fetches' = [fetches EXCEPT ![k] = [@ EXCEPT !.pc = "held"]]
    /\ UNCHANGED <<pc, config, cache, max_concurrent, payload_format, domains, domain_words>>
    /\ UNCHANGED crawl_unchanged

\* a retry loop that gives its slot back only when the fetch succeeded
CRetryLoop_KeepSlotOnFailure(k, fails, io) ==
    LET resp == APIResponse(RemoteTotalCount(k[1]),
                            async_words(payload_format, RemoteWords(k[1], k[2])),
                            k[2], k[1])
        succeeds == fails = 0 \/ retries_left(config, fails - 1)
        write_fails == config.cache_enabled /\ io # "ok"
        fs == [fetches EXCEPT ![k] =
                  IF ~succeeds THEN [@ EXCEPT !.pc = "failed", !.error = "RuntimeError"]
                  ELSE IF write_fails THEN [@ EXCEPT !.pc = "failed", !.error = "OSError"]
                  ELSE [@ EXCEPT !.pc = "done", !.result = resp]]
    IN
    /\ pc = "crawl"
    /\ fetches[k].pc = "held"
    /\ fails <= config.max_retries + 1
    /\ succeeds \/ io = "ok"
    /\ cache' = IF succeeds THEN async_save_to_cache(config, cache, resp, io) ELSE cache
    /\ permits' = IF succeeds THEN permits + 1 ELSE permits
    /\ fetches' = async_fetch_all_pages(fs, k)[1]
    /\ domains' = async_fetch_all_pages(fs, k)[2]
    /\ UNCHANGED <<pc, config, max_concurrent, payload_format, domain_words>>
    /\ UNCHANGED crawl_unchanged

\* the retry loop of fetch_page, from its first client.get until the
\* coroutine leaves `async with self.semaphore`: `fails` attempts fail one
\* after the other (HTTPError or ValueError) and, when the loop has an
\* iteration left after them, the next one is answered status 200 with the
\* remote's page.  Between its iterations the coroutine keeps the semaphore
\* and changes nothing outside itself
CRetryLoop(k, fails, io) ==
    LET resp == APIResponse(RemoteTotalCount(k[1]),
                            async_words(payload_format, RemoteWords(k[1], k[2])),
                            k[2], k[1])
        succeeds == fails = 0 \/ retries_left(config, fails - 1)
        write_fails == config.cache_enabled /\ io # "ok"
        fs == [fetches EXCEPT ![k] =
                  IF ~succeeds THEN [@ EXCEPT !.pc = "failed", !.error = "RuntimeError"]
                  ELSE IF write_fails THEN [@ EXCEPT !.pc = "failed", !.error = "OSError"]
                  ELSE [@ EXCEPT !.pc = "done", !.result = resp]]
    IN
    /\ pc = "crawl"
    /\ fetches[k].pc = "held"
    /\ fails <= config.max_retries + 1
    /\ succeeds \/ io = "ok"
    /\ cache' = IF succeeds THEN async_save_to_cache(config, cache, resp, io) ELSE cache
    /\ permits' = permits + 1
    /\ fetches' = async_fetch_all_pages(fs, k)[1]
    /\ domains' = async_fetch_all_pages(fs, k)[2]
    /\ UNCHANGED <<pc, config, max_concurrent, payload_format, domain_words>>
    /\ UNCHANGED crawl_unchanged

\* the words of the responses of pages 2..n that are not exceptions, in the
\* order in which the fetches finished
GatheredWords_CompletionOrder(d, n) ==
    Flatten([i \in 1..Len(completed) |->
                IF completed[i] \in 2..n /\ fetches[<<d, completed[i]>>].pc = "done"
                THEN fetches[<<d, completed[i]>>].result.words ELSE <<>>])

\* the words of the responses of pages 2..n that are not exceptions, in page order
RECURSIVE GatheredWords(_, _)
GatheredWords(d, n) ==
    IF n <= 1 THEN <<>>
    ELSE GatheredWords(d, n - 1) \o
         (IF fetches[<<d, n>>].pc = "done" THEN fetches[<<d, n>>].result.words ELSE <<>>)

\* fetch_all_pages after `await asyncio.gather(*tasks, return_exceptions=True)`
CGathered(d) ==
    LET n == total_pages(fetches[<<d, 1>>].result.total_count) IN
    /\ pc = "crawl"
    /\ domains[d].pc = "gather"
    /\ \A p \in 2..n : fetches[<<d, p>>].pc \in {"done", "failed"}
    /\ domains' = [domains EXCEPT ![d] =
                      [@ EXCEPT !.pc = "returned", !.words = @ \o GatheredWords(d, n)]]
    /\ UNCHANGED <<pc, config, cache, permits, max_concurrent, payload_format, fetches, domain_words>>
    /\ UNCHANGED crawl_unchanged

\* the dict built from the results of the first i domains that are tuples
RECURSIVE CollectResults(_)
CollectResults(i) ==
    IF i = 0 THEN <<>>
    ELSE IF domains[Alphabet[i]].pc = "returned"
    THEN Append(CollectResults(i - 1), <<Alphabet[i], domains[Alphabet[i]].words>>)
    ELSE CollectResults(i - 1)

\* fetch_all_domains_concurrent after its gather
CCollect ==
    /\ pc = "crawl"
    /\ \A d \in AlphabetSet : domains[d].pc \in {"returned", "raised"}
    /\ domain_words' = CollectResults(Len(Alphabet))
    /\ pc' = "crawl_done"
    /\ UNCHANGED <<config, cache, permits, max_concurrent, payload_format, fetches, domains>>
    /\ UNCHANGED crawl_unchanged

NextCrawl ==
    \/ \E k \in CacheKeys, read_ok \in BOOLEAN : CStart(k, read_ok)
    \/ \E k \in CacheKeys : CAcquire(k)
    \/ \E k \in CacheKeys, fails \in 0..(MaxRetries + 1), io \in IoOutcomes :
          CRetryLoop(k, fails, io)
    \/ \E d \in AlphabetSet : CGathered(d)
    \/ CCollect

SpecCrawl == InitCrawl /\ [][NextCrawl]_vars

\* C14: when the fetch of a page of a domain failed, fetch_all_pages does not
\* return a word list for the domain
C14_PageFailureAbortsDomain ==
    \A d \in AlphabetSet :
        (pc \in {"crawl", "crawl_done"} /\ domains[d].pc = "returned")
            => \A p \in 1..MaxPage : fetches[<<d, p>>].pc # "failed"

\* the part of C14 that holds: a failure of page 1 makes fetch_all_pages raise
C14_FirstPageFailureRaises ==
    \A d \in AlphabetSet :
        (pc \in {"crawl", "crawl_done"} /\ domains[d].pc = "returned")
            => fetches[<<d, 1>>].pc = "done"

\* the fetch_page coroutines inside `async with self.semaphore`
InFlight == {k \in CacheKeys : fetches[k].pc = "held"}

\* C15: the number of page fetches in flight, over all domains of the crawl
\* together, is never above max_concurrent (it is max_concurrent minus the
\* value of the semaphore)
C15_InFlightAtMostMaxConcurrent ==
    pc \in {"crawl", "crawl_done"}
        => /\ Cardinality(InFlight) <= max_concurrent
           /\ Cardinality(InFlight) = max_concurrent - permits

\* fetches of two domains hold the whole semaphore while a fetch of a third
\* domain waits for it
C15_Witness ==
    /\ pc = "crawl"
    /\ max_concurrent = 2
    /\ Cardinality(InFlight) = 2
    /\ Cardinality({k[1] : k \in InFlight}) = 2
    /\ \E k \in CacheKeys : fetches[k].pc = "acquire" /\ k[1] \notin {j[1] : j \in InFlight}

\* C16: fetch_all_domains_concurrent returns a result only when no page fetch
\* of the crawl failed: a requested domain, or pages of it, whose fetch
\* failed are never silently missing from the result
C16_NoFailureSilentlyOmitted ==
    pc = "crawl_done" => \A k \in CacheKeys : fetches[k].pc # "failed"

\* what does hold of the result: it has the domains whose page 1 was fetched,
\* in the order they were given, each with the words of its fetched pages
C16_ResultHoldsFetchedPages ==
    pc = "crawl_done" =>
        /\ DictKeys(domain_words) = {d \in AlphabetSet : fetches[<<d, 1>>].pc = "done"}
        /\ \A d \in DictKeys(domain_words) :
              DictGet(domain_words, d) =
                  fetches[<<d, 1>>].result.words
                      \o GatheredWords(d, total_pages(fetches[<<d, 1>>].result.total_count))

\* ---------------------------------------------------------------------------
\* The end of ORSTScraper.run

\* every alphabet domain was crawled and process_words returned
CrawledAndProcessed ==
    /\ index = Len(Alphabet)
    /\ AlphabetSet \subseteq full_fetch
    /\ result = process_words(all_words, config)

\* C17: run deletes the checkpoint file and resets the in-memory progress
\* state only after every alphabet domain was crawled and process_words
\* returned, and a run that ends with an error or an interrupt has not
\* deleted the checkpoint file
C17_CheckpointDeletedOnlyOnSuccess ==
    /\ (pc \in {"cleared", "done"} \/ unlinked) => CrawledAndProcessed
    /\ pc \in {"failed", "save_failed", "interrupted"} => ~unlinked

\* the part of C17 that holds: the file is deleted only after the crawl and
\* process_words, never in a run that ends with an error, and in a run that
\* ends with an interrupt only when the interrupt came after progress.clear()
C17_DeletedOnlyAfterProcess ==
    /\ (pc \in {"cleared", "done"} \/ unlinked) => CrawledAndProcessed
    /\ pc \in {"failed", "save_failed"} => ~unlinked
    /\ (pc = "interrupted" /\ unlinked) => state = FreshState

C17_WitnessDeleted == pc = "done" /\ unlinked /\ disk.kind = "absent"

\* ---------------------------------------------------------------------------
\* The order of the commits of scrape_all

\* the positions of run() inside the loop of scrape_all
CrawlPcs == RunningPcs \ {"process", "clear", "cleared"}

C18_Step ==
    /\ (pc = "mark" /\ pc' = "mark_save") =>
          /\ \A j \in 1..index : Alphabet[j] \in state.completed_chars
          /\ state'.completed_chars = state.completed_chars \cup {Alphabet[index + 1]}
    /\ (pc \in CrawlPcs /\ pc' \in RunningPcs) =>
          /\ state'.current_char_index >= state.current_char_index
          /\ state'.current_char_index <= Len(Alphabet)
          /\ \A j \in 1..state'.current_char_index : Alphabet[j] \in state'.completed_chars

\* C18: during a crawl the domain at index i is committed only when every
\* domain at a lower index is in completed_chars, and current_char_index never
\* decreases and never exceeds the alphabet length
C18_CommitsInAlphabetOrder == [][C18_Step]_vars

\* a resumed run commits the last domain after the ones before it
C18_Witness ==
    /\ pc = "mark_save"
    /\ loaded.ok
    /\ index = Len(Alphabet) - 1
    /\ state.completed_chars = AlphabetSet
    /\ state.current_char_index = index

\* ---------------------------------------------------------------------------
\* scrape_character for a domain that is already completed

C19_Step ==
    (pc = "loop" /\ index < Len(Alphabet) /\ is_completed(state, CurChar)
        /\ pc' # "interrupted") =>
            /\ pc' = "extend"
            /\ words' = DictGet(state.partial_results, CurChar)
            /\ fetched' = fetched
            /\ requested' = requested
            /\ cache' = cache
            /\ last_request_time' = last_request_time
            /\ state' = state
            /\ disk' = disk

\* C19: scrape_character for a domain in completed_chars performs no fetch,
\* returns partial_results[domain] and leaves completed_chars,
\* partial_results and total_words_scraped as they are
C19_CompletedDomainIsReused == [][C19_Step]_vars

\* a resumed run took the stored words of a completed domain that has words
C19_Witness ==
    /\ pc = "extend"
    /\ loaded.ok
    /\ CurChar \notin fetched
    /\ CurChar \in state.completed_chars
    /\ words # <<>>
    /\ words = DictGet(state.partial_results, CurChar)

\* ---------------------------------------------------------------------------
\* What scrape_all returns

\* the word lists of all alphabet domains, one after the other in alphabet order
AllDomainsInOrder(cfg) == Flatten([i \in 1..Len(Alphabet) |-> DomainWords(Alphabet[i], cfg)])

\* C20: when scrape_all completes, on a fresh run or on a run resumed from a
\* checkpoint an earlier run left, the aggregated list is the concatenation of
\* the word lists of all alphabet domains in alphabet order, each once
C20_AggregateIsConcatenation ==
    pc = "process" => all_words = AllDomainsInOrder(config)

\* the part of C20 that holds: a fresh run, and a run resumed from a
\* checkpoint whose current_char_index counts all its completed domains
C20_AggregateAfterWholeCommits ==
    (pc = "process" /\ (~loaded.ok \/ RecordsPrefix(loaded.st)))
        => all_words = AllDomainsInOrder(config)

\* a run resumed from a checkpoint that records a domain as completed above
\* its current_char_index has that domain's words twice
C20_ResumedAfterHalfCommit ==
    /\ pc = "process"
    /\ loaded.ok
    /\ ~RecordsPrefix(loaded.st)
    /\ Len(all_words) > Len(AllDomainsInOrder(config))

\* ---------------------------------------------------------------------------
\* Cache failures

\* C21: a failure to read or write a cache entry never makes fetch_page fail:
\* no fetch_page call of the bounded-concurrent client ends with the OSError
\* of a cache read or write
C21_CacheFailureNeverFatal ==
    pc = "async" => \A t \in Tasks : tasks[t].pc = "failed" => tasks[t].error # "OSError"

\* the part of C21 about the sequential client, which holds: a call whose
\* cache read or write failed made a network request, and returned the
\* response whenever the request was answered with a valid body
C21_SeqCacheFailureNeverFatal ==
    (pc = "client" /\ s_call.io_failed) =>
        /\ ~s_call.cache_hit
        /\ s_call.gets = 1
        /\ (s_call.status200 /\ seq_body_error(s_call.body) = "none") =>
              /\ s_call.outcome = "returned"
              /\ s_call.resp = APIResponse(s_call.body.count, s_call.body.words,
                                           s_call.key[2], s_call.key[1])

C21_SeqWitnessWriteFailed ==
    /\ pc = "client"
    /\ s_call.io_failed
    /\ s_call.outcome = "returned"
    /\ ~s_call.saved

\* ---------------------------------------------------------------------------
\* Checkpoint save failures

SavePcs == {"mark_save", "mark_write", "index_save", "index_write"}

\* a step in which save() ends without having written the file: open() or
\* json.dump raised (the file stays as it was), or mkdir raised
SaveFailsStep ==
    /\ pc \in SavePcs
    /\ pc' \notin {"mark_write", "index_write", "interrupted"}
    /\ disk' = disk

\* what C22 says of such a step: the run goes on in scrape_all with the
\* in-memory checkpoint holding the domain being committed
SaveFailureAbsorbed ==
    /\ pc' \in {"extend", "loop"}
    /\ state' = state
    /\ CurChar \in state.completed_chars
    /\ CurChar \in DictKeys(state.partial_results)

\* C22: when persisting the checkpoint fails with an I/O error during a
\* commit, the error does not reach the orchestrator, the in-memory
\* checkpoint holds the domain, and scrape_all goes on
C22_SaveFailureAbsorbed == [][SaveFailsStep => SaveFailureAbsorbed]_vars

\* the part of C22 that holds: every failure of open() and of the write
C22_OpenOrWriteFailureAbsorbed ==
    [][(SaveFailsStep /\ pc' # "save_failed") => SaveFailureAbsorbed]_vars

\* a run that went on to the next domain although no save of the first
\* domain wrote the file
C22_WitnessWentOn ==
    /\ pc = "fetch"
    /\ index >= 1
    /\ ~loaded.ok
    /\ disk.kind # "ok"
    /\ Alphabet[1] \in state.completed_chars
    /\ Alphabet[1] \in fetched

\* ---------------------------------------------------------------------------
\* Where a crawl starts

\* the process starts fresh: resume is not requested, or disabled in the
\* configuration, or the checkpoint file is absent or cannot be parsed
StartsFresh ==
    \/ ~loaded'.resume
    \/ ~config'.resume_enabled
    \/ disk.kind # "ok"

C23_Step ==
    (pc \in EndedPcs /\ pc' = "loop") =>
        /\ StartsFresh => /\ state' = FreshState
                          /\ index' = 0
                          /\ all_words' = <<>>
        /\ state' # FreshState =>
              /\ ~StartsFresh
              /\ state' = FromJson(disk.data)
              /\ index' = FromJson(disk.data).current_char_index
              /\ all_words' = get_all_words(FromJson(disk.data))

\* C23: a crawl starts at index 0 with an empty checkpoint when resume is not
\* requested, when the configuration disables it, or when the checkpoint file
\* is absent or cannot be parsed; only otherwise does it start from the loaded
\* current_char_index with the loaded words
C23_StartsFreshOrLoaded == [][C23_Step]_vars

\* a process asked to resume, with resume disabled in its configuration and
\* a loadable checkpoint on disk, is at the head of its loop
C23_Witness ==
    /\ pc = "loop"
    /\ loaded.resume
    /\ ~config.resume_enabled
    /\ disk.kind = "ok"
    /\ disk.data.current_char_index >= 1
    /\ state = FreshState
    /\ index = 0
    /\ fetched = {}

\* ---------------------------------------------------------------------------
\* The checkpoint round trip

\* C24: for every state of the tracker, save() followed by load() in a new
\* tracker on the same file restores current_char_index, completed_chars,
\* total_words_scraped, last_update_time and partial_results, whatever order
\* the set completed_chars is dumped in
C24_SaveLoadRoundTrip ==
    pc = "tracker" =>
        \A order \in Orderings(state.completed_chars) :
            LET back == load(save(disk, state, "ok", order), FreshState, TRUE)
            IN /\ back[1]
               /\ back[2].current_char_index = state.current_char_index
               /\ back[2].completed_chars = state.completed_chars
               /\ back[2].total_words_scraped = state.total_words_scraped
               /\ back[2].last_update_time = state.last_update_time
               /\ back[2].partial_results = state.partial_results

\* a state with two completed domains and an advanced index was saved with
\* completed_chars dumped in descending order
C24_Witness ==
    /\ pc = "tracker"
    /\ state.current_char_index = 2
    /\ Cardinality(state.completed_chars) = 2
    /\ state.total_words_scraped = MaxTotalWords
    /\ disk = FileOk(ToJson(state, Descending(state.completed_chars)))

-----------------------------------------------------------------------------
(* thai_utils on its own: filter_invalid_words,                            *)
(* deduplicate_preserving_order, sort_thai_words and process_words applied *)
(* to a word list.  words is the argument, result the value returned, and  *)
(* config holds the two flags (include_compound_words is allow_compounds,  *)
(* validate_thai_only is strict_thai_only).                                *)

\* the characters of the words that are compared with one another: two
\* alphabet symbols, SARA AA (a vowel sign behind the alphabet), SARA E (a
\* leading vowel) and the space
WordChars == {3585, 3586, 3634, 3648, 32}

WordsOver(S, n) == UNION {[1..k -> S] : k \in 0..n}

\* lists of two words over WordChars
WordPairs == {<<a, b>> : a \in WordsOver(WordChars, MaxWordLen), b \in WordsOver(WordChars, MaxWordLen)}

\* the words of the longer lists: a symbol, a symbol with a vowel sign, two
\* compounds (space, hyphen), a blank word, the empty word, a word with a
\* leading vowel, a Latin word
SampleWords ==
    {<<3585>>, <<3586, 3634>>, <<3585, 32, 3586>>, <<3585, 45, 3586>>,
     <<32>>, <<>>, <<3648, 3585>>, <<97>>}

SampleLists == WordsOver(SampleWords, MaxListLen)

\* the alphabet symbols of the model, each a word of its own, in any order
AlphabetOrders == {[i \in 1..Len(s) |-> <<s[i]>>] : s \in Orderings(AlphabetSet)}

\* one configuration for each value of the two flags
WordConfigs == {cfg \in Configs : cfg.resume_enabled}

DefaultWordConfig == CHOOSE cfg \in WordConfigs : cfg.include_compound_words /\ cfg.validate_thai_only

words_unchanged ==
    <<config, words, state, disk, all_words, index, page, first_total, cache,
      last_request_time, client_closed, now, runs, loaded, fetched, saved_chars,
      full_fetch, log_vars, seq_vars, async_vars, crawl_vars>>

InitWords ==
    /\ pc = "words"
    /\ \/ words \in SampleLists /\ config \in WordConfigs
       \/ words \in WordPairs \cup AlphabetOrders /\ config = DefaultWordConfig
    /\ result = <<>>
    /\ cache = [k \in CacheKeys |-> NoEntry]
    /\ state = FreshState
    /\ disk = FileAbsent
    /\ all_words = <<>>
    /\ index = 0
    /\ page = 0
    /\ first_total = 0
    /\ last_request_time = 0
    /\ client_closed = FALSE
    /\ now = 0
    /\ runs = 0
    /\ loaded = FALSE
    /\ fetched = {}
    /\ saved_chars = {}
    /\ full_fetch = {}
    /\ requested = <<>>
    /\ unlinked = FALSE
    /\ completed = <<>>
    /\ s_call = NoCall
    /\ s_prev = NoCall
    /\ last_sent = -1
    /\ prev_sent = -1
    /\ tasks = <<>>
    /\ permits = 0
    /\ max_concurrent = 0
    /\ payload_format = "strings"
    /\ since_sent = -1
    /\ last_gap = -1
    /\ fetches = <<>>
    /\ domains = <<>>
    /\ domain_words = <<>>

WFilter ==
    /\ pc = "words"
    /\ result' = filter_invalid_words(words, config.include_compound_words,
                                      config.validate_thai_only)
    /\ pc' = "filtered"
    /\ UNCHANGED words_unchanged

WDeduplicate ==
    /\ pc = "words"
    /\ result' = deduplicate_preserving_order(words)
    /\ pc' = "deduplicated"
    /\ UNCHANGED words_unchanged

WSort ==
    /\ pc = "words"
    /\ result' = sort_thai_words(words)
    /\ pc' = "sorted"
    /\ UNCHANGED words_unchanged

WProcess ==
    /\ pc = "words"
    /\ result' = process_words(words, config)
    /\ pc' = "processed"
    /\ UNCHANGED words_unchanged

NextWords ==
    \/ WFilter
    \/ WDeduplicate
    \/ WSort
    \/ WProcess

SpecWords == InitWords /\ [][NextWords]_vars

WordsTypeOK == pc \in {"words", "filtered", "deduplicated", "sorted", "processed"}

NoDuplicates(ws) == \A i, j \in 1..Len(ws) : i # j => ws[i] # ws[j]

OrderedByKey(ws) ==
    \A i, j \in 1..Len(ws) : i < j => ~KeyLess(sort_key(ws[j]), sort_key(ws[i]))

\* C25: for every raw word list and every setting of the two flags, the list
\* process_words returns has no word twice, is in non-decreasing order of the
\* sort key, and, when validate_thai_only is set, holds only words whose
\* characters are script characters, or whitespace when compound words are
\* included
C25_ProcessedIsUniqueOrderedValid ==
    pc = "processed" =>
        /\ NoDuplicates(result)
        /\ OrderedByKey(result)
        /\ config.validate_thai_only =>
              \A i \in 1..Len(result) : \A j \in 1..Len(result[i]) :
                  \/ is_thai_character(result[i][j])
                  \/ IsSpace(result[i][j]) /\ config.include_compound_words

\* process_words dropped a repeated word and changed the order of the rest
C25_Witness ==
    /\ pc = "processed"
    /\ config.validate_thai_only
    /\ ~NoDuplicates(words)
    /\ Len(result) = 2
    /\ ~OrderedByKey(deduplicate_preserving_order(
            filter_invalid_words(words, config.include_compound_words,
                                 config.validate_thai_only)))

\* tests/test_thai_utils_hypothesis.py: THAI_VOWELS and THAI_TONE_MARKS
THAI_VOWELS == {3632, 3634, 3636, 3637, 3638, 3639, 3640, 3641,
                3648, 3649, 3650, 3651, 3652, 3653}
THAI_TONE_MARKS == {3656, 3657, 3658, 3659, 3660}

\* a character of the script: a consonant, a vowel or a tone mark
ScriptChar(c) == InThaiOrder(c) \/ c \in THAI_VOWELS \/ c \in THAI_TONE_MARKS

\* the three-tier collation key of a character; in_script tells whether the
\* character is of the script range
CollationCharKey(c, in_script) ==
    IF InThaiOrder(c) THEN <<0, thai_order(c)>>
    ELSE IF in_script THEN <<1, c>>
    ELSE <<2, c>>

\* the collation with the script range of the script's consonants, vowels and
\* tone marks
CollationKey(w) == [i \in 1..Len(w) |-> CollationCharKey(w[i], ScriptChar(w[i]) \/ is_thai_character(w[i]))]

CollationLess(a, b) == KeyLess(CollationKey(a), CollationKey(b))

\* the collation with the script range is_thai_character recognizes
RecognizedKey(w) == [i \in 1..Len(w) |-> CollationCharKey(w[i], is_thai_character(w[i]))]

\* sort_thai_words was given two words
SortedPair == pc = "sorted" /\ Len(words) = 2

\* C26: sort_thai_words, which orders by the key of create_thai_sort_key,
\* leaves two words in the order given exactly when the second does not come
\* before the first in the three-tier collation (alphabet symbols by rank,
\* then the other characters of the script by code point, then every other
\* character by code point)
C26_KeyOrdersAsCollation ==
    SortedPair => (result = words <=> ~CollationLess(words[2], words[1]))

\* the part of C26 that holds: the key orders two words as the three-tier
\* collation whose script range is the range is_thai_character recognizes
C26_KeyOrdersAsRecognizedCollation ==
    SortedPair =>
        (result = words <=> ~KeyLess(RecognizedKey(words[2]), RecognizedKey(words[1])))

\* two words were exchanged because of a character behind the alphabet
C26_WitnessExchanged ==
    /\ SortedPair
    /\ result # words
    /\ \E i \in 1..Len(words[1]) : ~InThaiOrder(words[1][i]) /\ is_thai_character(words[1][i])

IsStrictPrefix(a, b) == Len(a) < Len(b) /\ SubSeq(b, 1, Len(a)) = a

\* the alphabet symbols of the model, each a word of its own, in alphabet order
AlphabetWords == [i \in 1..Len(Alphabet) |-> <<Alphabet[i]>>]

\* C27: of two words of which one is a strict prefix of the other (a word w
\* and w followed by an alphabet symbol in particular), sort_thai_words
\* returns the prefix first, in whichever order they were given; and it
\* returns the alphabet symbols, given in any order, in alphabet order
C27_PrefixFirstAndAlphabetOrder ==
    pc = "sorted" =>
        /\ Len(words) = 2 /\ IsStrictPrefix(words[1], words[2]) =>
              /\ result = words
              /\ KeyLess(sort_key(words[1]), sort_key(words[2]))
        /\ Len(words) = 2 /\ IsStrictPrefix(words[2], words[1]) =>
              /\ result = <<words[2], words[1]>>
              /\ KeyLess(sort_key(words[2]), sort_key(words[1]))
        /\ words \in AlphabetOrders => result = AlphabetWords

\* a word followed by an alphabet symbol was given before the word itself and
\* came out behind it
C27_Witness ==
    /\ pc = "sorted"
    /\ Len(words) = 2
    /\ words[2] # <<>>
    /\ \E s \in AlphabetSet : words[1] = Append(words[2], s)
    /\ result = <<words[2], words[1]>>

\* the alphabet symbols were given in descending order and came out ascending
C27_WitnessAlphabet ==
    /\ pc = "sorted"
    /\ words = [i \in 1..Len(Alphabet) |-> <<Alphabet[Len(Alphabet) + 1 - i]>>]
    /\ result = AlphabetWords

\* the positions of ws at which a word occurs for the first time
FirstOccurrences(ws) == {i \in 1..Len(ws) : \A j \in 1..(i - 1) : ws[j] # ws[i]}

\* the k-th smallest element of a set of numbers
RECURSIVE KthOf(_, _)
KthOf(S, k) ==
    LET least == CHOOSE x \in S : \A y \in S : x <= y
    IN IF k = 1 THEN least ELSE KthOf(S \ {least}, k - 1)

\* C28: deduplicate_preserving_order returns the first occurrences of the
\* distinct words of its input, in input order; the result has no word twice
\* and holds every word of the input
C28_FirstOccurrencesInOrder ==
    pc = "deduplicated" =>
        /\ Len(result) = Cardinality(FirstOccurrences(words))
        /\ \A k \in 1..Len(result) : result[k] = words[KthOf(FirstOccurrences(words), k)]
        /\ NoDuplicates(result)
        /\ Range(result) = Range(words)

\* a word was given before and behind another one, and the result has it
\* once, in front
C28_Witness ==
    /\ pc = "deduplicated"
    /\ Len(words) = 3
    /\ words[1] = words[3]
    /\ words[1] # words[2]
    /\ result = <<words[1], words[2]>>

\* a space/hyphen-class separator: the characters is_compound_word looks for
Separator(c) == c \in {32, 45, 8211}

\* the keep condition of the filter as it is specified
ClaimedKeep(word, allow_compounds, strict_thai_only) ==
    /\ ~IsBlank(word)
    /\ allow_compounds \/ \A i \in 1..Len(word) : ~Separator(word[i])
    /\ \/ ~strict_thai_only
       \/ \A i \in 1..Len(word) :
             \/ ScriptChar(word[i]) \/ is_thai_character(word[i])
             \/ allow_compounds /\ Separator(word[i])

RECURSIVE ClaimedFilter(_, _, _)
ClaimedFilter(ws, allow_compounds, strict_thai_only) ==
    IF ws = <<>> THEN <<>>
    ELSE (IF ClaimedKeep(Head(ws), allow_compounds, strict_thai_only)
          THEN <<Head(ws)>> ELSE <<>>)
         \o ClaimedFilter(Tail(ws), allow_compounds, strict_thai_only)

\* C29: filter_invalid_words returns, in input order, exactly the words that
\* are not empty or whitespace-only, that hold no space/hyphen-class
\* separator unless allow_compounds is true, and, when strict_thai_only is
\* true, whose characters are all script characters or, with allow_compounds,
\* separators
C29_FilterKeepsAsSpecified ==
    pc = "filtered" =>
        result = ClaimedFilter(words, config.include_compound_words,
                               config.validate_thai_only)

\* a word that the strict filter treats otherwise than specified: it holds a
\* hyphen, or a script character that is_thai_character does not recognize
StrictlyMistaken(word) ==
    \E i \in 1..Len(word) :
        \/ word[i] \in {45, 8211}
        \/ ScriptChar(word[i]) /\ ~is_thai_character(word[i])

\* the part of C29 that holds: without strict_thai_only, and for lists
\* without hyphenated words and without words with unrecognized vowels, the
\* filter keeps exactly the specified words in input order
C29_FilterKeepsAsSpecifiedElsewhere ==
    (/\ pc = "filtered"
     /\ config.validate_thai_only => \A i \in 1..Len(words) : ~StrictlyMistaken(words[i]))
        => result = ClaimedFilter(words, config.include_compound_words,
                                  config.validate_thai_only)

\* the strict filter without compounds kept one word of three
C29_WitnessDropped ==
    /\ pc = "filtered"
    /\ config.validate_thai_only
    /\ ~config.include_compound_words
    /\ Len(words) = 3
    /\ \A i \in 1..Len(words) : ~StrictlyMistaken(words[i])
    /\ Len(result) = 1
    /\ result[1] = words[2]

\* a non-empty word made only of consonants, vowels and tone marks
ScriptWord(word) == word # <<>> /\ \A i \in 1..Len(word) : ScriptChar(word[i])

\* C30: is_thai_character is true of every consonant, every vowel (the
\* leading vowels U+0E40..U+0E44 and U+0E45 among them) and every tone mark,
\* so that is_valid_thai_word accepts every non-empty word made of such
\* characters and the strict filter keeps it
C30_ScriptWordsAreValid ==
    pc = "filtered" /\ config.validate_thai_only =>
        \A i \in 1..Len(words) :
            ScriptWord(words[i]) =>
                /\ \A j \in 1..Len(words[i]) : is_thai_character(words[i][j])
                /\ is_valid_thai_word(words[i], config.include_compound_words)
                /\ words[i] \in Range(result)

\* the vowels U+0E40..U+0E45, which no range of is_thai_character holds
UnrecognizedVowels == {c \in THAI_VOWELS : ~is_thai_character(c)}

\* the part of C30 that holds: every consonant, every tone mark and every
\* vowel up to U+0E3A is recognized, and the strict filter keeps every
\* non-empty word made of these
C30_RecognizedScriptWordsAreValid ==
    /\ UnrecognizedVowels = 3648..3653
    /\ \A c \in (Range(THAI_ALPHABET) \cup THAI_VOWELS \cup THAI_TONE_MARKS) \ UnrecognizedVowels :
          is_thai_character(c)
    /\ pc = "filtered" /\ config.validate_thai_only =>
          \A i \in 1..Len(words) :
              (ScriptWord(words[i]) /\ \A j \in 1..Len(words[i]) : words[i][j] \notin UnrecognizedVowels) =>
                  /\ is_valid_thai_word(words[i], config.include_compound_words)
                  /\ words[i] \in Range(result)

\* the strict filter kept a word with a vowel sign and dropped a word with a
\* leading vowel
C30_WitnessKeptAndDropped ==
    /\ pc = "filtered"
    /\ config.validate_thai_only
    /\ \E i \in 1..Len(words) :
          /\ ScriptWord(words[i])
          /\ \E j \in 1..Len(words[i]) : words[i][j] \in THAI_VOWELS
          /\ words[i] \in Range(result)
    /\ \E i \in 1..Len(words) : ScriptWord(words[i]) /\ words[i] \notin Range(result)

-----------------------------------------------------------------------------
(* dictionary_diff: compare_dictionaries applied to two word lists.  words *)
(* is old_words, all_words is new_words, and result is the DictionaryDiff   *)
(* returned.                                                                *)

\* a comparison that reports every old word as unchanged
compare_dictionaries_AllUnchanged(old_words, new_words) ==
    [added_words |-> Range(new_words) \ Range(old_words),
     removed_words |-> Range(old_words) \ Range(new_words),
     unchanged_words |-> Range(old_words),
     old_count |-> Len(old_words),
     new_count |-> Len(new_words)]

compare_dictionaries(old_words, new_words) ==
    LET old_set == Range(old_words)
        new_set == Range(new_words)
    IN [added_words |-> new_set \ old_set,
        removed_words |-> old_set \ new_set,
        unchanged_words |-> old_set \cap new_set,
        old_count |-> Len(old_words),
        new_count |-> Len(new_words)]

\* the words of the two dictionaries
DiffWords == {<<3585>>, <<3586>>, <<3585, 3634>>}

DiffLists == WordsOver(DiffWords, MaxListLen)

InitDiff ==
    /\ pc = "diff"
    /\ words \in DiffLists
    /\ all_words \in DiffLists
    /\ config = DefaultWordConfig
    /\ result = <<>>
    /\ cache = [k \in CacheKeys |-> NoEntry]
    /\ state = FreshState
    /\ disk = FileAbsent
    /\ index = 0
    /\ page = 0
    /\ first_total = 0
    /\ last_request_time = 0
    /\ client_closed = FALSE
    /\ now = 0
    /\ runs = 0
    /\ loaded = FALSE
    /\ fetched = {}
    /\ saved_chars = {}
    /\ full_fetch = {}
    /\ requested = <<>>
    /\ unlinked = FALSE
    /\ completed = <<>>
    /\ s_call = NoCall
    /\ s_prev = NoCall
    /\ last_sent = -1
    /\ prev_sent = -1
    /\ tasks = <<>>
    /\ permits = 0
    /\ max_concurrent = 0
    /\ payload_format = "strings"
    /\ since_sent = -1
    /\ last_gap = -1
    /\ fetches = <<>>
    /\ domains = <<>>
    /\ domain_words = <<>>

DCompare ==
    /\ pc = "diff"
    /\ result' = compare_dictionaries(words, all_words)
    /\ pc' = "compared"
    /\ UNCHANGED words_unchanged

NextDiff == DCompare

SpecDiff == InitDiff /\ [][NextDiff]_vars

\* C31: compare_dictionaries(old, new) returns added = set(new) \ set(old),
\* removed = set(old) \ set(new) and unchanged = their intersection; the three
\* sets are pairwise disjoint and together are the union of set(old) and
\* set(new)
C31_DiffSetsPartitionUnion ==
    pc = "compared" =>
        /\ result.added_words = Range(all_words) \ Range(words)
        /\ result.removed_words = Range(words) \ Range(all_words)
        /\ result.unchanged_words = Range(words) \cap Range(all_words)
        /\ result.added_words \cap result.removed_words = {}
        /\ result.added_words \cap result.unchanged_words = {}
        /\ result.removed_words \cap result.unchanged_words = {}
        /\ result.added_words \cup result.removed_words \cup result.unchanged_words
              = Range(words) \cup Range(all_words)

\* a comparison with one word added, one removed and one unchanged
C31_Witness ==
    /\ pc = "compared"
    /\ Cardinality(result.added_words) = 1
    /\ Cardinality(result.removed_words) = 1
    /\ Cardinality(result.unchanged_words) = 1

\* C39: the result of compare_dictionaries has old_count equal to the number
\* of removed words plus the number of unchanged words, and new_count equal to
\* the number of added words plus the number of unchanged words, for every
\* pair of word lists, duplicates collapsing
C39_CountsAddUp ==
    pc = "compared" =>
        /\ result.old_count = Cardinality(result.removed_words) + Cardinality(result.unchanged_words)
        /\ result.new_count = Cardinality(result.added_words) + Cardinality(result.unchanged_words)

\* the part of C39 that holds: the counts add up when neither list holds a
\* word twice
C39_CountsAddUpWithoutDuplicates ==
    (pc = "compared" /\ NoDuplicates(words) /\ NoDuplicates(all_words)) =>
        /\ result.old_count = Cardinality(result.removed_words) + Cardinality(result.unchanged_words)
        /\ result.new_count = Cardinality(result.added_words) + Cardinality(result.unchanged_words)

\* two lists without duplicates were compared, with words removed, added and
\* unchanged
C39_WitnessWithoutDuplicates ==
    /\ pc = "compared"
    /\ NoDuplicates(words)
    /\ NoDuplicates(all_words)
    /\ result.old_count = 2
    /\ result.new_count = 2
    /\ Cardinality(result.unchanged_words) = 1

-----------------------------------------------------------------------------
(* APIResponse / AsyncAPIResponse: the properties total_pages and          *)
(* has_more_pages of a response, which the two classes compute alike.      *)
(* result is the response, and then the response with its two properties.  *)

has_more_pages(resp) == resp.page < total_pages(resp.total_count)

InitResponse ==
    /\ pc = "response"
    /\ \E total_count \in 0..MaxTotalCount, p \in 1..MaxPageNumber :
          result = APIResponse(total_count, <<>>, p, Alphabet[1])
    /\ words = <<>>
    /\ all_words = <<>>
    /\ config = DefaultWordConfig
    /\ cache = [k \in CacheKeys |-> NoEntry]
    /\ state = FreshState
    /\ disk = FileAbsent
    /\ index = 0
    /\ page = 0
    /\ first_total = 0
    /\ last_request_time = 0
    /\ client_closed = FALSE
    /\ now = 0
    /\ runs = 0
    /\ loaded = FALSE
    /\ fetched = {}
    /\ saved_chars = {}
    /\ full_fetch = {}
    /\ requested = <<>>
    /\ unlinked = FALSE
    /\ completed = <<>>
    /\ s_call = NoCall
    /\ s_prev = NoCall
    /\ last_sent = -1
    /\ prev_sent = -1
    /\ tasks = <<>>
    /\ permits = 0
    /\ max_concurrent = 0
    /\ payload_format = "strings"
    /\ since_sent = -1
    /\ last_gap = -1
    /\ fetches = <<>>
    /\ domains = <<>>
    /\ domain_words = <<>>

RProperties ==
    /\ pc = "response"
    /\ result' = [resp |-> result,
                  total_pages |-> total_pages(result.total_count),
                  has_more_pages |-> has_more_pages(result)]
    /\ pc' = "properties"
    /\ UNCHANGED words_unchanged

NextResponse == RProperties

SpecResponse == InitResponse /\ [][NextResponse]_vars

\* the least number of pages of page_size words that hold total_count words
CeilDiv(total_count, page_size) ==
    CHOOSE n \in 0..total_count :
        /\ n * page_size >= total_count
        /\ n = 0 \/ (n - 1) * page_size < total_count

\* C32: for every total_count >= 0, total_pages is the ceiling of
\* total_count / 10, and has_more_pages is true exactly when page is less than
\* total_pages
C32_TotalPagesIsCeiling ==
    pc = "properties" =>
        /\ result.total_pages = CeilDiv(result.resp.total_count, 10)
        /\ result.has_more_pages <=> result.resp.page < CeilDiv(result.resp.total_count, 10)

\* a response whose total_count is not a multiple of the page size, on its
\* last page
C32_Witness ==
    /\ pc = "properties"
    /\ result.resp.total_count = 25
    /\ result.resp.page = 3
    /\ result.total_pages = 3
    /\ ~result.has_more_pages

-----------------------------------------------------------------------------
(* One fetch_all_pages on an AsyncORSTAPIClient, for a domain of           *)
(* GatherPages pages, next to the sequential fetch_all_pages of an         *)
(* ORSTAPIClient for the same domain on a remote that does not fail.       *)
(* The cache is disabled.  fetches, domains and permits are the concurrent *)
(* call as in the crawl; page, first_total and words are the sequential    *)
(* call; completed is the order in which the fetch_page coroutines         *)
(* finished.                                                               *)

GatherDomain == Alphabet[1]

GatherKeys == {GatherDomain} \X (1..GatherPages)

\* the remote's count for the domain: GatherPages pages, the last with one word
GatherTotalCount == RESULTS_PER_PAGE * (GatherPages - 1) + 1

\* the remote's page p: a word of its own and a word every page has
GatherRemoteWords(p) == << <<GatherDomain, 3632 + p>>, <<GatherDomain>> >>

GatherConfigs == {c \in CrawlConfigs : ~c.cache_enabled}

\* the items of the second element of the body: strings, or objects with
\* the word under "headword"
BodyItems(format, ws) ==
    IF format = "strings" THEN ws ELSE [i \in 1..Len(ws) |-> [headword |-> ws[i]]]

InitGather ==
    /\ pc = "crawl"
    /\ config \in GatherConfigs
    /\ max_concurrent \in 1..NumTasks
    /\ payload_format \in {"strings", "objects"}
    /\ permits = max_concurrent
    /\ cache = [k \in CacheKeys |-> NoEntry]
    /\ fetches = [k \in GatherKeys |-> IF k[2] = 1 THEN [NewFetch EXCEPT !.pc = "new"]
                                       ELSE NewFetch]
    /\ domains = [d \in {GatherDomain} |-> NewDomain]
    /\ domain_words = <<>>
    /\ completed = <<>>
    /\ page = 1
    /\ first_total = 0
    /\ words = <<>>
    /\ tasks = <<>>
    /\ since_sent = -1
    /\ last_gap = -1
    /\ state = FreshState
    /\ disk = FileAbsent
    /\ all_words = <<>>
    /\ index = 0
    /\ result = <<>>
    /\ last_request_time = 0
    /\ client_closed = FALSE
    /\ now = 0
    /\ runs = 0
    /\ loaded = FALSE
    /\ fetched = {}
    /\ saved_chars = {}
    /\ full_fetch = {}
    /\ requested = <<>>
    /\ unlinked = FALSE
    /\ s_call = NoCall
    /\ s_prev = NoCall
    /\ last_sent = -1
    /\ prev_sent = -1

\* the retry loop of the concurrent fetch_page for page k[2], from its first
\* client.get until the coroutine leaves `async with self.semaphore`, as in
\* the crawl with the cache disabled: `fails` attempts fail, then the remote
\* answers when an iteration is left.  The coroutine finishes, and
\* fetch_all_pages goes on when it was waiting for page 1
GRetryLoop(k, fails) ==
    LET resp == APIResponse(GatherTotalCount,
                            async_words(payload_format, GatherRemoteWords(k[2])),
                            k[2], k[1])
        succeeds == fails = 0 \/ retries_left(config, fails - 1)
        fs == [fetches EXCEPT ![k] =
                  IF ~succeeds THEN [@ EXCEPT !.pc = "failed", !.error = "RuntimeError"]
                  ELSE [@ EXCEPT !.pc = "done", !.result = resp]]
    IN
    /\ pc = "crawl"
    /\ fetches[k].pc = "held"
    /\ fails <= config.max_retries + 1
    /\ permits' = permits + 1
    /\ fetches' = async_fetch_all_pages(fs, k)[1]
    /\ domains' = async_fetch_all_pages(fs, k)[2]
    /\ completed' = Append(completed, k[2])
    /\ UNCHANGED <<pc, config, cache, max_concurrent, payload_format, domain_words>>
    /\ UNCHANGED <<state, disk, all_words, index, page, first_total, words, result,
                   last_request_time, client_closed, now, runs, loaded, fetched,
                   saved_chars, full_fetch, log_vars, seq_vars, tasks, since_sent, last_gap>>

\* one fetch_page of the sequential fetch_all_pages, answered by the remote,
\* and all_words.extend of its words
GSeqPage ==
    LET resp == APIResponse(GatherTotalCount,
                            BodyItems(payload_format, GatherRemoteWords(page)),
                            page, GatherDomain)
        total == IF page = 1 THEN total_pages(resp.total_count) ELSE first_total
    IN
    /\ pc = "crawl"
    /\ page = 1 \/ page <= first_total
    /\ first_total' = total
    /\ words' = words \o resp.words
    /\ page' = page + 1
    /\ UNCHANGED <<pc, config, cache, permits, max_concurrent, payload_format,
                   fetches, domains, domain_words, completed>>
    /\ UNCHANGED <<state, disk, all_words, index, result,
                   last_request_time, client_closed, now, runs, loaded, fetched,
                   saved_chars, full_fetch, log_vars, seq_vars, tasks, since_sent, last_gap>>

NextGather ==
    \/ \E k \in GatherKeys, read_ok \in BOOLEAN : CStart(k, read_ok)
    \/ \E k \in GatherKeys : CAcquire(k)
    \/ \E k \in GatherKeys, fails \in 0..(MaxRetries + 1) : GRetryLoop(k, fails)
    \/ CGathered(GatherDomain)
    \/ GSeqPage

SpecGather == InitGather /\ [][NextGather]_vars

\* the concurrent fetch_all_pages has returned after gathering pages 2..n
GatherReturned ==
    /\ pc = "crawl"
    /\ DOMAIN domains = {GatherDomain}
    /\ domains[GatherDomain].pc = "returned"

\* the words of the pages 2..n whose fetch succeeded, in increasing page order
SucceededPagesInPageOrder ==
    Flatten([i \in 1..(GatherPages - 1) |->
                IF fetches[<<GatherDomain, i + 1>>].pc = "done"
                THEN fetches[<<GatherDomain, i + 1>>].result.words ELSE <<>>])

\* C33: the concurrent fetch_all_pages returns the words of page 1 followed
\* by the words of the pages 2..total_pages in the order in which their
\* fetches completed
C33_ConcatenatedInCompletionOrder ==
    GatherReturned =>
        domains[GatherDomain].words =
            fetches[<<GatherDomain, 1>>].result.words
            \o GatheredWords_CompletionOrder(GatherDomain, GatherPages)

\* C33 as amended: the concurrent fetch_all_pages returns the words of page 1
\* followed by the words of the pages 2..total_pages whose fetch succeeded,
\* in increasing page order, in whatever order the fetches completed
C33_ConcatenatedInPageOrder ==
    GatherReturned =>
        domains[GatherDomain].words =
            fetches[<<GatherDomain, 1>>].result.words \o SucceededPagesInPageOrder

\* every page was fetched, page 3 before page 2, and fetch_all_pages returned
C33_Witness ==
    /\ GatherReturned
    /\ payload_format = "objects"
    /\ \A k \in GatherKeys : fetches[k].pc = "done"
    /\ \E i, j \in 1..Len(completed) : i < j /\ completed[i] = 3 /\ completed[j] = 2

\* the words of a list, counted: how often each word occurs
CountIn(ws, w) == Cardinality({i \in 1..Len(ws) : ws[i] = w})

SameMultiset(ws1, ws2) ==
    /\ Range(ws1) = Range(ws2)
    /\ \A w \in Range(ws1) : CountIn(ws1, w) = CountIn(ws2, w)

\* the sequential fetch_all_pages has returned
SeqReturned == pc = "crawl" /\ page > 1 /\ page > first_total

\* both strategies have returned for the domain, the remote answering with
\* lists of strings and no fetch having failed
BothReturnedStrings ==
    /\ GatherReturned
    /\ SeqReturned
    /\ payload_format = "strings"
    /\ \A k \in GatherKeys : fetches[k].pc = "done"

\* C34: for a failure-free remote that answers with string word lists, the
\* sequential and the concurrent fetch_all_pages return the same multiset of
\* words for a domain, so that process_words gives the same result for both
C34_StrategiesReturnSameWords ==
    BothReturnedStrings =>
        /\ SameMultiset(words, domains[GatherDomain].words)
        /\ process_words(words, config) = process_words(domains[GatherDomain].words, config)

\* the part of C34 that holds: the sequential strategy returns the remote's
\* words of the pages 1..total_pages in page order, and the concurrent one
\* returns no more words than these
C34_SequentialReturnsEveryPage ==
    BothReturnedStrings =>
        /\ words = Flatten([p \in 1..GatherPages |-> GatherRemoteWords(p)])
        /\ Range(domains[GatherDomain].words) \subseteq Range(words)

C34_WitnessBothReturned == BothReturnedStrings /\ Len(words) = 2 * GatherPages

\* C35: on every exit path of run (it returned, a KeyboardInterrupt or another
\* exception of scrape_all or process_words propagated) the API client has been
\* closed; it is not closed while run is going on
C35_ClientClosedOnEveryExit ==
    /\ pc \in {"done", "failed", "save_failed", "interrupted"} => client_closed
    /\ pc \in RunningPcs => ~client_closed

\* the second run on the same files was interrupted and its client is closed
C35_Witness == pc = "interrupted" /\ runs = 2 /\ client_closed

\* C36: sort_thai_words returns a permutation of its input (every word as
\* often as the input has it) in which the sort key of each element is less
\* than or equal to the key of the next, and sorting the same list again
\* gives the same list
C36_SortIsOrderedPermutation ==
    pc = "sorted" =>
        /\ Len(result) = Len(words)
        /\ SameMultiset(result, words)
        /\ \A i \in 1..(Len(result) - 1) :
              ~KeyLess(sort_key(result[i + 1]), sort_key(result[i]))
        /\ sort_thai_words(words) = result

\* a list of three with a word twice that was not in order
C36_Witness ==
    /\ pc = "sorted"
    /\ Len(words) = 3
    /\ Cardinality(Range(words)) = 2
    /\ result # words
    /\ result[1] = result[2]

\* C37: in every state of the orchestrator, in a fresh run or a resumed one,
\* total_words_scraped is the sum of the lengths of the word lists in
\* partial_results; the same holds of a checkpoint file that was written whole
C37_TotalIsSumOfPartialResults ==
    /\ state.total_words_scraped = SumLen(DictValues(state.partial_results))
    /\ disk.kind = "ok" =>
          disk.data.total_words_scraped = SumLen(DictValues(disk.data.partial_results))

\* a resumed run that loaded a completed domain with words and has marked
\* another domain with words
C37_Witness ==
    /\ pc \in RunningPcs
    /\ loaded.ok
    /\ loaded.st.total_words_scraped > 0
    /\ state.total_words_scraped > loaded.st.total_words_scraped

\* The crawl under the scheduling of the event loop: a coroutine that can go
\* on is run eventually, and every network call returns or fails
SpecCrawlFair == InitCrawl /\ [][NextCrawl]_vars /\ WF_vars(NextCrawl)

\* fetch_all_domains_concurrent has returned, no fetch_page is waiting for a
\* slot or holding one, and the semaphore has all its slots
CrawlEndedWithAllSlots ==
    /\ pc = "crawl_done"
    /\ permits = max_concurrent
    /\ \A k \in CacheKeys : fetches[k].pc \in {"none", "done", "failed"}

\* C38: fetch_all_domains_concurrent does not deadlock on the semaphore: for
\* every max_concurrent >= 1 the call ends, with no fetch_page left waiting
\* for a slot (every one that waited got it) and with every slot released,
\* also when fetches fail or use up their retries
C38_CrawlEndsWithAllSlots == <>CrawlEndedWithAllSlots

\* the crawl ended with one slot, after a fetch that waited for it and a fetch
\* that failed
C38_Witness ==
    /\ CrawlEndedWithAllSlots
    /\ max_concurrent = 1
    /\ \E k \in CacheKeys : fetches[k].pc = "failed" /\ fetches[k].error = "RuntimeError"
    /\ Cardinality({k \in CacheKeys : fetches[k].pc = "done"}) >= 2

\* the words of ws that pass the filter under the flags of config
PassingWords(ws) ==
    {w \in Range(ws) : KeepWord(w, config.include_compound_words, config.validate_thai_only)}

\* the one list that holds the words of a set once each in key order
InKeyOrder(S) ==
    CHOOSE s \in [1..Cardinality(S) -> S] :
        /\ Range(s) = S
        /\ \A i, j \in 1..Cardinality(S) : i < j => KeyLess(sort_key(s[i]), sort_key(s[j]))

\* C40: the sort key is injective, two different words never having equal
\* keys, so that the result of process_words is determined by the set of the
\* input words that pass the filter alone: it is that set in strictly
\* increasing key order, whatever the order and the multiplicity of the input
C40_KeyInjectiveResultBySet ==
    /\ pc \in {"words", "sorted"} =>
          \A i, j \in 1..Len(words) :
              words[i] # words[j] => sort_key(words[i]) # sort_key(words[j])
    /\ pc = "processed" =>
          /\ \A i, j \in 1..Len(result) :
                i < j => KeyLess(sort_key(result[i]), sort_key(result[j]))
          /\ Range(result) = PassingWords(words)
          /\ result = InKeyOrder(PassingWords(words))

\* a list with a word twice and its words not in key order was processed
C40_Witness ==
    /\ pc = "processed"
    /\ Len(words) = 3
    /\ words[1] = words[3]
    /\ Len(result) = 2
    /\ result[1] = words[2]

====
